---------------------------- MODULE Spec2Model ----------------------------
(***************************************************************************)
(* A model of hwpxlib: the XML escaping of the serializer, the ZIP         *)
(* package builder, the per-thread element ID generator, the document      *)
(* builder with its save path, and the form engine's placeholder fill.     *)
(*                                                                         *)
(* Text is modelled as a sequence of one-character strings, so that        *)
(* escaping, path normalisation and the placeholder pattern are computed   *)
(* character by character as the code computes them.                       *)
(***************************************************************************)
EXTENDS Integers, Sequences, FiniteSets, TLC

VARIABLES
    \* serializer (xml_writer.py): the string given and what was written
    escIn, escOut,
    \* HwpxPackage (package.py): _files, and the last call with its outcome
    files, probed, last,
    \* _IdGenerator (xml_writer.py): the generator held in each slot of
    \* _local, the last call, and what each thread has drawn since it last
    \* set or reset its seed, with the finished seeded runs
    rng, idCall, seededBy, drawn, epochs,
    \* HwpxDocument (document.py): its fields, and the last call with its
    \* outcome
    _elements, _images, _image_counter, _seed, docCall,
    \* HwpxDocument (document.py): the registry its constructor fills
    _border_fills, _char_prs, _para_prs, _styles,
    \* convert_md_to_hwpx (md2hwpx.py): the nodes its loop has yet to take
    ast,
    \* _detect_image_size (document.py): the bytes given, the index of the
    \* marker scan, and how the call has ended
    scan,
    \* HwpxForm (form.py): the parsed section trees in the order of
    \* _section_paths, and the last call with its outcome
    sections, formCall,
    \* HwpxForm (form.py): _files and the keys of _xml_files in the order
    \* of insertion, _section_paths, and the archive save or to_bytes wrote
    _files, _xml_files, _section_paths, saved

escVars == <<escIn, escOut>>
pkgVars == <<files, probed, last>>
idVars == <<rng, idCall, seededBy, drawn, epochs>>
regVars == <<_border_fills, _char_prs, _para_prs, _styles>>
mdVars == <<ast>>
sizeVars == <<scan>>
docVars == <<_elements, _images, _image_counter, _seed, docCall,
             _border_fills, _char_prs, _para_prs, _styles, ast,
             scan>>
zipVars == <<_files, _xml_files, _section_paths, saved>>
formVars == <<sections, formCall, _files, _xml_files, _section_paths, saved>>
vars == <<escIn, escOut, files, probed, last,
          rng, idCall, seededBy, drawn, epochs,
          _elements, _images, _image_counter, _seed, docCall,
          _border_fills, _char_prs, _para_prs, _styles, ast,
          scan,
          sections, formCall, _files, _xml_files, _section_paths, saved>>

----------------------------------------------------------------------------
(* Bounds of the model *)

\* longest string handed to the escaping functions
MaxStrLen == 3
\* longest arbitrary entry path handed to add_file
MaxPathLen == 4
\* most IDs drawn from one generator before it is seeded again
MaxDraws == 3
\* most IDs one document needs
MaxDocIds == 4
\* most elements of one document
MaxElems == 2

----------------------------------------------------------------------------
(* The ID map (constants.py) and the registry a new document starts with
   (template.py) *)

CHARPR_BODY == 0
CHARPR_BOLD == 1
CHARPR_ITALIC == 2
CHARPR_BOLD_ITALIC == 3
CHARPR_H1 == 4
CHARPR_H2 == 5
CHARPR_H3 == 6
CHARPR_H4 == 7
CHARPR_H5 == 8
CHARPR_H6 == 9
CHARPR_INLINE_CODE == 10
CHARPR_CODE_BLOCK == 11
CHARPR_TABLE_HEADER == 12
CHARPR_TABLE_BODY == 13
CHARPR_LINK == 14
CHARPR_STRIKETHROUGH == 15
CHARPR_SUPERSCRIPT == 16
CHARPR_SUBSCRIPT == 17

PARAPR_BODY == 0
PARAPR_H1 == 1
PARAPR_H2 == 2
PARAPR_H3 == 3
PARAPR_H4 == 4
PARAPR_H5 == 5
PARAPR_H6 == 6
PARAPR_CODE == 7
PARAPR_BULLET == 8
PARAPR_TABLE == 9
PARAPR_ORDERED == 10
PARAPR_BULLET_L2 == 11
PARAPR_BULLET_L3 == 12
PARAPR_ORDERED_L2 == 13
PARAPR_ORDERED_L3 == 14

BORDERFILL_NONE == 1
BORDERFILL_DEFAULT == 2
BORDERFILL_TABLE == 3
BORDERFILL_TABLE_HEADER == 4
BORDERFILL_CODE_BLOCK == 5
BORDERFILL_CODE_INLINE == 6

\* the registry models (models/head.py), by their ID and the IDs they
\* reference
BorderFill(id, fill_color) == [id |-> id, fill_color |-> fill_color]

CharPr(id, border_fill_id_ref) ==
    [id |-> id, border_fill_id_ref |-> border_fill_id_ref]

ParaPr(id, border_fill_id_ref) ==
    [id |-> id, border_fill_id_ref |-> border_fill_id_ref]

Style(id, para_pr_id_ref, char_pr_id_ref) ==
    [id |-> id, para_pr_id_ref |-> para_pr_id_ref,
     char_pr_id_ref |-> char_pr_id_ref, next_style_id_ref |-> 0]

COLOR_CODE_BG == "#F5F5F5"
COLOR_CODE_BLOCK_BG == "#F8F8F8"
COLOR_TABLE_HEADER_BG == "#4472C4"

\* StyleConfig(): the colours the border fills take from it
StyleConfig ==
    [color_code_bg |-> COLOR_CODE_BG,
     color_code_block_bg |-> COLOR_CODE_BLOCK_BG,
     color_table_header_bg |-> COLOR_TABLE_HEADER_BG]

\* no config given
NoConfig ==
    [color_code_bg |-> "None", color_code_block_bg |-> "None",
     color_table_header_bg |-> "None"]

\* config or StyleConfig()
ConfigOrDefault(config) == IF config = NoConfig THEN StyleConfig ELSE config

\* the table with its IDs counted from 0
border_fills_from_zero(config) ==
    [i \in 1..6 |-> BorderFill(i - 1, "none")]

\* default_border_fills(config)
default_border_fills(config) ==
    << BorderFill(BORDERFILL_NONE, "none"),
       BorderFill(BORDERFILL_DEFAULT, "none"),
       BorderFill(BORDERFILL_TABLE, "none"),
       BorderFill(BORDERFILL_TABLE_HEADER,
                  ConfigOrDefault(config).color_table_header_bg),
       BorderFill(BORDERFILL_CODE_BLOCK,
                  ConfigOrDefault(config).color_code_block_bg),
       BorderFill(BORDERFILL_CODE_INLINE,
                  ConfigOrDefault(config).color_code_bg) >>

\* default_char_prs()
default_char_prs ==
    << CharPr(CHARPR_BODY, BORDERFILL_DEFAULT),
       CharPr(CHARPR_BOLD, BORDERFILL_DEFAULT),
       CharPr(CHARPR_ITALIC, BORDERFILL_DEFAULT),
       CharPr(CHARPR_BOLD_ITALIC, BORDERFILL_DEFAULT),
       CharPr(CHARPR_H1, BORDERFILL_DEFAULT),
       CharPr(CHARPR_H2, BORDERFILL_DEFAULT),
       CharPr(CHARPR_H3, BORDERFILL_DEFAULT),
       CharPr(CHARPR_H4, BORDERFILL_DEFAULT),
       CharPr(CHARPR_H5, BORDERFILL_DEFAULT),
       CharPr(CHARPR_H6, BORDERFILL_DEFAULT),
       CharPr(CHARPR_INLINE_CODE, BORDERFILL_CODE_INLINE),
       CharPr(CHARPR_CODE_BLOCK, BORDERFILL_DEFAULT),
       CharPr(CHARPR_TABLE_HEADER, BORDERFILL_DEFAULT),
       CharPr(CHARPR_TABLE_BODY, BORDERFILL_DEFAULT),
       CharPr(CHARPR_LINK, BORDERFILL_DEFAULT) >>

\* the borderFill ID a ParaPr refers to when none is given
PARAPR_BORDER_FILL == 2

\* default_para_prs()
default_para_prs ==
    << ParaPr(PARAPR_BODY, PARAPR_BORDER_FILL),
       ParaPr(PARAPR_H1, PARAPR_BORDER_FILL),
       ParaPr(PARAPR_H2, PARAPR_BORDER_FILL),
       ParaPr(PARAPR_H3, PARAPR_BORDER_FILL),
       ParaPr(PARAPR_H4, PARAPR_BORDER_FILL),
       ParaPr(PARAPR_H5, PARAPR_BORDER_FILL),
       ParaPr(PARAPR_H6, PARAPR_BORDER_FILL),
       ParaPr(PARAPR_CODE, BORDERFILL_CODE_BLOCK),
       ParaPr(PARAPR_BULLET, PARAPR_BORDER_FILL),
       ParaPr(PARAPR_TABLE, PARAPR_BORDER_FILL),
       ParaPr(PARAPR_ORDERED, PARAPR_BORDER_FILL),
       ParaPr(PARAPR_BULLET_L2, PARAPR_BORDER_FILL),
       ParaPr(PARAPR_BULLET_L3, PARAPR_BORDER_FILL),
       ParaPr(PARAPR_ORDERED_L2, PARAPR_BORDER_FILL),
       ParaPr(PARAPR_ORDERED_L3, PARAPR_BORDER_FILL) >>

\* default_styles()
default_styles ==
    << Style(0, PARAPR_BODY, CHARPR_BODY),
       Style(1, PARAPR_H1, CHARPR_H1),
       Style(2, PARAPR_H2, CHARPR_H2),
       Style(3, PARAPR_H3, CHARPR_H3),
       Style(4, PARAPR_H4, CHARPR_H4),
       Style(5, PARAPR_H5, CHARPR_H5),
       Style(6, PARAPR_H6, CHARPR_H6) >>

\* the registry fields after HwpxDocument.__init__
NewRegistry ==
    /\ _border_fills = default_border_fills(NoConfig)
    /\ _char_prs = default_char_prs
    /\ _para_prs = default_para_prs
    /\ _styles = default_styles

----------------------------------------------------------------------------
(* The parts of the state a specification leaves idle *)

\* the threads that call into the ID generator
Threads == {1, 2}

\* a slot of _local in which no rng attribute has been stored
NoRng == [mode |-> "unset", seed |-> 0, pos |-> 0]

\* no seed set by set_seed
NoSeed == 0

IdIdle ==
    /\ rng = [t \in Threads |-> NoRng]
    /\ idCall = [op |-> "none", thread |-> 0]
    /\ seededBy = [t \in Threads |-> NoSeed]
    /\ drawn = [t \in Threads |-> <<>>]
    /\ epochs = {}

\* no call made on the document yet
NoDocCall ==
    [op |-> "new", args |-> <<>>, result |-> "None", archive |-> <<>>,
     section |-> <<>>]

\* _detect_image_size has not been called
SizeIdle == scan = [data |-> <<>>, i |-> 0, state |-> "idle", w |-> 0, h |-> 0]

\* HwpxDocument.__init__ without a seed
DocIdle ==
    /\ _elements = <<>>
    /\ _images = <<>>
    /\ _image_counter = 0
    /\ _seed = NoSeed
    /\ docCall = NoDocCall
    /\ NewRegistry
    /\ ast = <<>>
    /\ SizeIdle

\* no call made on the form yet
NoFormCall ==
    [op |-> "open", data |-> <<>>, missing |-> "keep", result |-> "form",
     before |-> <<>>]

\* a form with no section
FormIdle ==
    /\ sections = <<>>
    /\ formCall = NoFormCall
    /\ _files = <<>>
    /\ _xml_files = <<>>
    /\ _section_paths = <<>>
    /\ saved = <<>>

----------------------------------------------------------------------------
(* Text helpers *)

\* all sequences over alphabet A of length at most n
StrsUpTo(A, n) == UNION {[1..k -> A] : k \in 0..n}

\* s starts with prefix p (str.startswith)
StartsWith(s, p) ==
    /\ Len(s) >= Len(p)
    /\ SubSeq(s, 1, Len(p)) = p

\* p occurs in s as a contiguous substring (the `in` operator on str)
Contains(s, p) ==
    \E i \in 1..(Len(s) - Len(p) + 1) : SubSeq(s, i, i + Len(p) - 1) = p

\* str.replace(c, r) for a one-character c
RECURSIVE Replace(_, _, _)
Replace(s, c, r) ==
    IF s = <<>> THEN <<>>
    ELSE (IF Head(s) = c THEN r ELSE <<Head(s)>>) \o Replace(Tail(s), c, r)

----------------------------------------------------------------------------
(* XML escaping: xml_writer.py _esc, _esc_attr over xml.sax.saxutils.escape *)

AMP  == <<"&", "a", "m", "p", ";">>
GT   == <<"&", "g", "t", ";">>
LT   == <<"&", "l", "t", ";">>
QUOT == <<"&", "q", "u", "o", "t", ";">>

\* __dict_replace: each entity of the mapping replaced in turn
RECURSIVE dict_replace(_, _)
dict_replace(s, entities) ==
    IF entities = <<>> THEN s
    ELSE dict_replace(Replace(s, Head(entities)[1], Head(entities)[2]),
                      Tail(entities))

\* the replacements in the wrong order: & last, so the & of an entity just
\* written is escaped again
xml_escape_lt_first(data, entities) ==
    LET d1 == Replace(data, "<", LT)
        d2 == Replace(d1, ">", GT)
        d3 == Replace(d2, "&", AMP)
    IN  dict_replace(d3, entities)

\* xml.sax.saxutils.escape(data, entities): & first, then > and <, then the
\* caller's entities
xml_escape(data, entities) ==
    LET d1 == Replace(data, "&", AMP)
        d2 == Replace(d1, ">", GT)
        d3 == Replace(d2, "<", LT)
    IN  dict_replace(d3, entities)

\* _esc(text): element text
_esc(text) == xml_escape(text, <<>>)

\* the attribute escape without the quote entity
_esc_attr_without_quot(value) == xml_escape(value, <<>>)

\* _esc_attr(value): attribute value, the double quote escaped too
_esc_attr(value) == xml_escape(value, << <<"\"", QUOT>> >>)

----------------------------------------------------------------------------
(* What an XML parser reads back (ElementTree in the tests and in form.py) *)

MALFORMED == <<"MALFORMED">>

\* index of the first occurrence of c in s, 0 when absent
RECURSIVE IndexOf(_, _)
IndexOf(s, c) ==
    IF s = <<>> THEN 0
    ELSE IF Head(s) = c THEN 1
    ELSE LET r == IndexOf(Tail(s), c) IN IF r = 0 THEN 0 ELSE r + 1

\* the predefined entities of XML
EntityChar(name) ==
    CASE name = <<"a", "m", "p">>      -> <<"&">>
      [] name = <<"l", "t">>           -> <<"<">>
      [] name = <<"g", "t">>           -> <<">">>
      [] name = <<"q", "u", "o", "t">> -> <<"\"">>
      [] name = <<"a", "p", "o", "s">> -> <<"'">>
      [] OTHER                         -> MALFORMED

\* character data with its entity references resolved; a bare & or a
\* reference to an unknown entity is not well-formed
RECURSIVE XmlUnescape(_)
XmlUnescape(s) ==
    IF s = <<>> THEN <<>>
    ELSE IF Head(s) = "&"
    THEN LET j == IndexOf(s, ";")
         IN  IF j = 0 THEN MALFORMED
             ELSE EntityChar(SubSeq(s, 2, j - 1))
                      \o XmlUnescape(SubSeq(s, j + 1, Len(s)))
    ELSE <<Head(s)>> \o XmlUnescape(Tail(s))

\* the part of s before the first c (all of s when c is absent)
Before(s, c) ==
    LET j == IndexOf(s, c) IN IF j = 0 THEN s ELSE SubSeq(s, 1, j - 1)

\* the value read from  name="written" : it ends at the first raw quote,
\* and a raw < inside it is not well-formed
ParseAttr(written) ==
    LET v == Before(written, "\"")
    IN  IF IndexOf(v, "<") # 0 THEN MALFORMED ELSE XmlUnescape(v)

\* the text read from  <t>written</t> : it ends at the first raw <
ParseText(written) == XmlUnescape(Before(written, "<"))

----------------------------------------------------------------------------
(* The serializer's string-typed values: xml_writer.py.  Each writer is     *)
(* modelled by the string values it interpolates, in source order: the      *)
(* field, whether it lands in an attribute or in element text, the value    *)
(* held by the model object and the characters written.                     *)

Attr(field, raw, written) ==
    [field |-> field, kind |-> "attr", raw |-> raw, written |-> written]

Text(field, raw, written) ==
    [field |-> field, kind |-> "text", raw |-> raw, written |-> written]

\* _write_font_face(ff): the language tag, then face and type of each font
RECURSIVE WriteFonts(_)
WriteFonts(fonts) ==
    IF fonts = <<>> THEN <<>>
    ELSE << Attr("face", Head(fonts).face, _esc_attr(Head(fonts).face)),
            Attr("type", Head(fonts).type, _esc_attr(Head(fonts).type)) >>
         \o WriteFonts(Tail(fonts))

_write_font_face(ff) ==
    << Attr("lang", ff.lang, _esc_attr(ff.lang)) >> \o WriteFonts(ff.fonts)

\* _write_border_fill(bf): type, width and colour of the four borders; the
\* fill colour only when it is set and is not "none"
NONE_COLOR == <<"n", "o", "n", "e">>

_write_border_fill(bf) ==
    << Attr("left_type", bf.left_type, _esc_attr(bf.left_type)),
       Attr("left_width", bf.left_width, _esc_attr(bf.left_width)),
       Attr("left_color", bf.left_color, _esc_attr(bf.left_color)),
       Attr("right_type", bf.right_type, _esc_attr(bf.right_type)),
       Attr("right_width", bf.right_width, _esc_attr(bf.right_width)),
       Attr("right_color", bf.right_color, _esc_attr(bf.right_color)),
       Attr("top_type", bf.top_type, _esc_attr(bf.top_type)),
       Attr("top_width", bf.top_width, _esc_attr(bf.top_width)),
       Attr("top_color", bf.top_color, _esc_attr(bf.top_color)),
       Attr("bottom_type", bf.bottom_type, _esc_attr(bf.bottom_type)),
       Attr("bottom_width", bf.bottom_width, _esc_attr(bf.bottom_width)),
       Attr("bottom_color", bf.bottom_color, _esc_attr(bf.bottom_color)) >>
    \o (IF bf.fill_color # <<>> /\ bf.fill_color # NONE_COLOR
        THEN << Attr("fill_color", bf.fill_color, _esc_attr(bf.fill_color)) >>
        ELSE << Attr("fill_color", bf.fill_color, NONE_COLOR) >>)

\* _write_char_pr(cp)
_write_char_pr(cp) ==
    << Attr("text_color", cp.text_color, _esc_attr(cp.text_color)),
       Attr("shade_color", cp.shade_color, _esc_attr(cp.shade_color)),
       Attr("underline_type", cp.underline_type, _esc_attr(cp.underline_type)),
       Attr("underline_color", cp.underline_color, _esc_attr(cp.underline_color)),
       Attr("strikeout", cp.strikeout, _esc_attr(cp.strikeout)) >>

\* _write_para_pr(pp): alignment and heading type are escaped; the line
\* spacing type is interpolated as it is, in the hp:case and in the
\* hp:default branch
_write_para_pr(pp) ==
    << Attr("align_horizontal", pp.align_horizontal,
            _esc_attr(pp.align_horizontal)),
       Attr("heading_type", pp.heading_type, _esc_attr(pp.heading_type)),
       Attr("line_spacing_type", pp.line_spacing_type, pp.line_spacing_type),
       Attr("line_spacing_type", pp.line_spacing_type, pp.line_spacing_type) >>

\* _write_style(s)
_write_style(st) ==
    << Attr("type", st.type, _esc_attr(st.type)),
       Attr("name", st.name, _esc_attr(st.name)),
       Attr("eng_name", st.eng_name, _esc_attr(st.eng_name)) >>

\* write_paragraph(para, is_first): the text of each run, as element text
RECURSIVE WriteRunTexts(_)
WriteRunTexts(runs) ==
    IF runs = <<>> THEN <<>>
    ELSE << Text("text", Head(runs).text, _esc(Head(runs).text)) >>
         \o WriteRunTexts(Tail(runs))

write_paragraph_text(para) == WriteRunTexts(para.runs)

\* write_image_paragraph(image): the binary item reference
write_image_ref(image) ==
    << Attr("binary_item_id", image.binary_item_id,
            _esc_attr(image.binary_item_id)) >>

----------------------------------------------------------------------------
(* Model objects whose string fields all hold the string v *)

FontFaceOf(v) ==
    [lang |-> v, fonts |-> << [face |-> v, type |-> v],
                              [face |-> v, type |-> v] >>]

BorderFillOf(v) ==
    [left_type |-> v, left_width |-> v, left_color |-> v,
     right_type |-> v, right_width |-> v, right_color |-> v,
     top_type |-> v, top_width |-> v, top_color |-> v,
     bottom_type |-> v, bottom_width |-> v, bottom_color |-> v,
     fill_color |-> v]

CharPrOf(v) ==
    [text_color |-> v, shade_color |-> v, underline_type |-> v,
     underline_color |-> v, strikeout |-> v]

ParaPrOf(v) ==
    [align_horizontal |-> v, heading_type |-> v, line_spacing_type |-> v]

StyleOf(v) == [type |-> v, name |-> v, eng_name |-> v]

ParagraphOf(v) == [runs |-> << [text |-> v], [text |-> v] >>]

ImageOf(v) == [binary_item_id |-> v]

\* the characters the escaping is about, and two ordinary ones that spell
\* an entity name together with them
EscAlphabet == {"\"", "<", ">", "&", "'", "l", "t", ";"}

EscStrings == StrsUpTo(EscAlphabet, MaxStrLen)

----------------------------------------------------------------------------
(* The ZIP container: package.py *)

SEP == "/"

\* str.split(sep): the components between the separators
RECURSIVE Split(_, _)
Split(s, sep) ==
    LET j == IndexOf(s, sep)
    IN  IF j = 0 THEN <<s>>
        ELSE <<SubSeq(s, 1, j - 1)>> \o Split(SubSeq(s, j + 1, Len(s)), sep)

\* sep.join(comps)
RECURSIVE Join(_, _)
Join(comps, sep) ==
    IF comps = <<>> THEN <<>>
    ELSE IF Len(comps) = 1 THEN Head(comps)
    ELSE Head(comps) \o <<sep>> \o Join(Tail(comps), sep)

DOT == <<".">>
DOTDOT == <<".", ".">>

\* posixpath.normpath: 0, 1 or 2 leading slashes are kept
InitialSlashes(path) ==
    IF ~StartsWith(path, <<SEP>>) THEN 0
    ELSE IF StartsWith(path, <<SEP, SEP>>) /\ ~StartsWith(path, <<SEP, SEP, SEP>>)
    THEN 2
    ELSE 1

\* the loop of posixpath.normpath over the components: empty and "."
\* components are dropped, ".." removes the component before it unless
\* there is none to remove
RECURSIVE NormComps(_, _, _)
NormComps(comps, new_comps, initial_slashes) ==
    IF comps = <<>> THEN new_comps
    ELSE LET comp == Head(comps)
             rest == Tail(comps)
         IN  IF comp = <<>> \/ comp = DOT
             THEN NormComps(rest, new_comps, initial_slashes)
             ELSE IF \/ comp # DOTDOT
                     \/ (initial_slashes = 0 /\ new_comps = <<>>)
                     \/ (new_comps # <<>> /\ new_comps[Len(new_comps)] = DOTDOT)
             THEN NormComps(rest, Append(new_comps, comp), initial_slashes)
             ELSE IF new_comps # <<>>
             THEN NormComps(rest, SubSeq(new_comps, 1, Len(new_comps) - 1),
                            initial_slashes)
             ELSE NormComps(rest, new_comps, initial_slashes)

normpath(path) ==
    IF path = <<>> THEN DOT
    ELSE LET n == InitialSlashes(path)
             joined == Join(NormComps(Split(path, SEP), <<>>, n), SEP)
             out == [i \in 1..n |-> SEP] \o joined
         IN  IF out = <<>> THEN DOT ELSE out

\* the checks of add_file without the drive-letter check
ValidatePathNoDrive(path) ==
    IF StartsWith(path, <<"/">>) \/ StartsWith(path, <<"\\">>)
    THEN "Absolute"
    ELSE LET normalized == normpath(path)
         IN  IF \/ StartsWith(normalized, DOTDOT)
                \/ Contains(normalized, <<"/", ".", ".", "/">>)
                \/ normalized = DOTDOT
             THEN "traversal"
             ELSE "ok"

\* the three checks of add_file, in order: "ok", or the ValueError raised
ValidatePath(path) ==
    IF StartsWith(path, <<"/">>) \/ StartsWith(path, <<"\\">>)
    THEN "Absolute"
    ELSE LET normalized == normpath(path)
         IN  IF \/ StartsWith(normalized, DOTDOT)
                \/ Contains(normalized, <<"/", ".", ".", "/">>)
                \/ normalized = DOTDOT
             THEN "traversal"
             ELSE IF Len(path) >= 2 /\ path[2] = ":"
             THEN "Absolute"
             ELSE "ok"

\* content.encode('utf-8') for a str, bytes as they are
Encode(content) ==
    IF content.type = "str" THEN [type |-> "bytes", data |-> content.data]
    ELSE content

\* self._files[path] = content: a dict keeps the position of a key it has
PutFile(fs, path, bytes) ==
    IF \E i \in 1..Len(fs) : fs[i].path = path
    THEN [i \in 1..Len(fs) |->
             IF fs[i].path = path THEN [path |-> path, content |-> bytes]
             ELSE fs[i]]
    ELSE Append(fs, [path |-> path, content |-> bytes])

MIMETYPE_PATH == <<"m", "i", "m", "e", "t", "y", "p", "e">>

SECTION0_PATH ==
    <<"C", "o", "n", "t", "e", "n", "t", "s", "/",
      "s", "e", "c", "t", "i", "o", "n", "0", ".", "x", "m", "l">>

\* the other files written with the compression a ZipFile has by default
OtherEntriesStored(fs) ==
    [i \in 1..Len(SelectSeq(fs, LAMBDA f : f.path # MIMETYPE_PATH)) |->
        [name |-> SelectSeq(fs, LAMBDA f : f.path # MIMETYPE_PATH)[i].path,
         compress_type |-> "ZIP_STORED",
         content |-> SelectSeq(fs, LAMBDA f : f.path # MIMETYPE_PATH)[i]
                        .content]]

\* the entries that are not mimetype, in dict order, DEFLATED
RECURSIVE OtherEntries(_)
OtherEntries(fs) ==
    IF fs = <<>> THEN <<>>
    ELSE (IF Head(fs).path = MIMETYPE_PATH THEN <<>>
          ELSE << [name |-> Head(fs).path, compress_type |-> "ZIP_DEFLATED",
                   content |-> Head(fs).content] >>)
         \o OtherEntries(Tail(fs))

\* the entries in dict order, every one DEFLATED, mimetype where it stands
RECURSIVE AllDeflated(_)
AllDeflated(fs) ==
    IF fs = <<>> THEN <<>>
    ELSE << [name |-> Head(fs).path, compress_type |-> "ZIP_DEFLATED",
             content |-> Head(fs).content] >>
         \o AllDeflated(Tail(fs))

\* the archive save and to_bytes write: mimetype first and STORED when the
\* package has it, then every other entry
ZipWrite(fs) ==
    (IF \E i \in 1..Len(fs) : fs[i].path = MIMETYPE_PATH
     THEN LET i == CHOOSE k \in 1..Len(fs) : fs[k].path = MIMETYPE_PATH
          IN  << [name |-> MIMETYPE_PATH, compress_type |-> "ZIP_STORED",
                  content |-> fs[i].content] >>
     ELSE <<>>)
    \o OtherEntries(fs)

\* no call made on the package yet
NoCall ==
    [op |-> "new", path |-> <<>>, result |-> "None", before |-> <<>>,
     archive |-> <<>>]

----------------------------------------------------------------------------
(* Specification SpecEsc: one string, handed to each writer *)

PkgIdle ==
    /\ files = <<>>
    /\ probed = FALSE
    /\ last = NoCall

InitEsc ==
    /\ escIn \in EscStrings
    /\ escOut = [op |-> "none", items |-> <<>>]
    /\ PkgIdle
    /\ IdIdle
    /\ DocIdle
    /\ FormIdle

Wrote(op, items) ==
    /\ escOut' = [op |-> op, items |-> items]
    /\ UNCHANGED <<escIn, pkgVars, idVars, docVars, formVars>>

EscapeString ==
    Wrote("escape", << Text("text", escIn, _esc(escIn)),
                       Attr("value", escIn, _esc_attr(escIn)) >>)

WriteFontFace == Wrote("_write_font_face", _write_font_face(FontFaceOf(escIn)))

WriteBorderFill ==
    Wrote("_write_border_fill", _write_border_fill(BorderFillOf(escIn)))

WriteCharPr == Wrote("_write_char_pr", _write_char_pr(CharPrOf(escIn)))

WriteParaPr == Wrote("_write_para_pr", _write_para_pr(ParaPrOf(escIn)))

WriteStyle == Wrote("_write_style", _write_style(StyleOf(escIn)))

WriteParagraph ==
    Wrote("write_paragraph", write_paragraph_text(ParagraphOf(escIn)))

WriteImage == Wrote("write_image_paragraph", write_image_ref(ImageOf(escIn)))

NextEsc ==
    \/ EscapeString
    \/ WriteFontFace
    \/ WriteBorderFill
    \/ WriteCharPr
    \/ WriteParaPr
    \/ WriteStyle
    \/ WriteParagraph
    \/ WriteImage

SpecEsc == InitEsc /\ [][NextEsc]_vars

Items == {escOut.items[i] : i \in 1..Len(escOut.items)}

----------------------------------------------------------------------------
(* Claims about the serializer's escaping *)

\* the values C4 names: every string value the writers interpolate, except
\* the border fill's fill colour, which the claim does not list
C4Listed(it) == it.field # "fill_color"

\* C4 (the claim as stated): every string-typed registry or content value
\* written into header.xml or section0.xml is the escaped form of the value
\* held: element text through _esc, attribute values through _esc_attr.
C4_EveryValueEscaped ==
    \A it \in Items :
        C4Listed(it) =>
            it.written = (IF it.kind = "attr" THEN _esc_attr(it.raw)
                                              ELSE _esc(it.raw))

\* every & of w starts one of the four entities the escaping writes
EveryAmpStartsEntity(w) ==
    \A i \in 1..Len(w) :
        w[i] = "&" =>
            \E e \in {AMP, GT, LT, QUOT} :
                /\ i + Len(e) - 1 <= Len(w)
                /\ SubSeq(w, i, i + Len(e) - 1) = e

\* C5: escaping a string as element text or as an attribute value and
\* reading the result back as an XML parser does yields the original
\* string, and the escaped attribute value holds no raw double quote, no
\* raw < and no & other than the one that starts an entity.
C5_EscapeRoundTrip ==
    escOut.op = "escape" =>
        \A it \in Items :
            /\ it.kind = "text" => ParseText(it.written) = it.raw
            /\ it.kind = "attr" =>
                   /\ ParseAttr(it.written) = it.raw
                   /\ IndexOf(it.written, "\"") = 0
                   /\ IndexOf(it.written, "<") = 0
                   /\ EveryAmpStartsEntity(it.written)

\* a string holding a quote, a < and an & has been escaped
C5_Witness ==
    /\ escOut.op = "escape"
    /\ escIn = <<"\"", "<", "&">>
    /\ \E it \in Items : it.kind = "attr" /\ it.written = QUOT \o LT \o AMP

----------------------------------------------------------------------------
(* Specification SpecPkg: one package, files added in any order *)

PathAlphabet == {"/", "\\", ".", ":", "x"}

PARENT_X == <<".", ".", "/", "x">>
ROOT_X == <<"/", "x">>
DRIVE_X == <<"C", ":", "\\", "x">>

\* the paths the claims name
NamedPaths == {PARENT_X, ROOT_X, DRIVE_X}

\* the paths of the package layout used here
KnownPaths == {MIMETYPE_PATH, SECTION0_PATH}

\* every path up to MaxPathLen over the alphabet, and the named ones
ProbePaths == StrsUpTo(PathAlphabet, MaxPathLen) \cup NamedPaths

Contents ==
    {[type |-> "bytes", data |-> "application/hwp+zip"],
     [type |-> "str", data |-> "<hs:sec/>"]}

\* HwpxPackage(): an empty package
NewPackage ==
    /\ last.op # "new"
    /\ files' = <<>>
    /\ probed' = FALSE
    /\ last' = NoCall
    /\ UNCHANGED <<escVars, idVars, docVars, formVars>>

\* add_file(path, content): validation first; the map changes only when
\* the path passes
add_file(path, content) ==
    LET v == ValidatePath(path)
    IN  /\ files' = IF v = "ok" THEN PutFile(files, path, Encode(content))
                    ELSE files
        /\ last' = [op |-> "add_file", path |-> path,
                    result |-> IF v = "ok" THEN "None" ELSE "ValueError",
                    before |-> files, archive |-> <<>>]
        /\ UNCHANGED <<escVars, idVars, docVars, formVars>>

\* a file of the package layout
AddKnownFile ==
    \E path \in KnownPaths, content \in Contents :
        /\ add_file(path, content)
        /\ UNCHANGED probed

\* an arbitrary path, once per package
AddProbeFile ==
    /\ ~probed
    /\ \E path \in ProbePaths :
        /\ add_file(path, [type |-> "str", data |-> "<hs:sec/>"])
        /\ probed' = TRUE

\* to_bytes(): the archive as bytes
PkgToBytes ==
    /\ last' = [op |-> "to_bytes", path |-> <<>>, result |-> "bytes",
                before |-> files, archive |-> ZipWrite(files)]
    /\ UNCHANGED <<files, probed, escVars, idVars, docVars, formVars>>

\* save(output_path): the same archive, written to the file
PkgSave ==
    /\ last' = [op |-> "save", path |-> <<>>, result |-> "None",
                before |-> files, archive |-> ZipWrite(files)]
    /\ UNCHANGED <<files, probed, escVars, idVars, docVars, formVars>>

EscIdle ==
    /\ escIn = <<>>
    /\ escOut = [op |-> "none", items |-> <<>>]

InitPkg ==
    /\ PkgIdle
    /\ EscIdle
    /\ IdIdle
    /\ DocIdle
    /\ FormIdle

NextPkg ==
    \/ NewPackage
    \/ AddKnownFile
    \/ AddProbeFile
    \/ PkgToBytes
    \/ PkgSave

SpecPkg == InitPkg /\ [][NextPkg]_vars

----------------------------------------------------------------------------
(* Claims about the package's entry paths *)

Paths(fs) == {fs[i].path : i \in 1..Len(fs)}

Letters == {"x", "C"}

\* absolute, as the claim has it: a leading / or \, or a drive letter
IsAbsoluteForm(path) ==
    \/ StartsWith(path, <<"/">>)
    \/ StartsWith(path, <<"\\">>)
    \/ (Len(path) >= 2 /\ path[1] \in Letters /\ path[2] = ":")

\* some /-separated segment of the path is ".."
HasParentSegment(path) ==
    LET comps == Split(path, SEP)
    IN  \E i \in 1..Len(comps) : comps[i] = DOTDOT

\* C2 (the claim as stated): no path that is absolute or that has a ".."
\* segment anywhere is ever a key of the package's path-to-bytes map.
C2_NoAbsoluteOrParentPathAccepted ==
    \A path \in Paths(files) :
        ~IsAbsoluteForm(path) /\ ~HasParentSegment(path)

\* C3: add_file with ../x, /x or C:\x raises ValueError and leaves the map
\* as it was, and no archive written holds an entry under such a path.
C3_NamedPathsRejected ==
    /\ (last.op = "add_file" /\ last.path \in NamedPaths) =>
           (last.result = "ValueError" /\ files = last.before)
    /\ \A i \in 1..Len(last.archive) : last.archive[i].name \notin NamedPaths

\* C:\x was offered to a package that already holds a file, and refused
C3_Witness ==
    /\ last.op = "add_file"
    /\ last.path = DRIVE_X
    /\ last.result = "ValueError"
    /\ files # <<>>

----------------------------------------------------------------------------
(* The element ID generator (xml_writer.py, _IdGenerator) *)

\* the seeds given to set_seed; an unseeded Random() takes its state from
\* the operating system, which may be any of them
Seeds == {42, 31129490}

\* random.Random(seed).randint(100000000, 999999999), call by call: the
\* values CPython's generator returns for each seed
IdDraws ==
    (42 :> << 786579303, 219540831, 126855092, 896233790, 395310485,
              362950628, 339670711, 249827706, 890779946, 210053353,
              826600539, 895285932 >>)
    @@
    (31129490 :> << 749282808, 602592420, 227663215, 602592420, 127628138,
                    707141195, 472390439, 155397951, 951751972, 885426457,
                    104132155, 122793611 >>)

\* the value of the call number pos + 1 on a generator created from seed
randint(seed, pos) == IdDraws[seed][pos + 1]

\* random.Random(seed), no value drawn yet
Random(seed, mode) == [mode |-> mode, seed |-> seed, pos |-> 0]

\* one slot for all threads: an attribute of a plain object
SharedSlot(t) == 1

\* threading.local(): each thread reads and writes its own rng attribute
ThreadLocalSlot(t) == t

\* set_seed that keeps a generator the slot already holds
set_seed_if_unset(r, t, seed) ==
    IF r[ThreadLocalSlot(t)] = NoRng
    THEN [r EXCEPT ![ThreadLocalSlot(t)] = Random(seed, "seeded")]
    ELSE r

\* set_seed(seed): self._local.rng = random.Random(seed)
set_seed(r, t, seed) ==
    [r EXCEPT ![ThreadLocalSlot(t)] = Random(seed, "seeded")]

\* reset(): self._local.rng = random.Random(), whose state is entropy
reset(r, t, entropy) ==
    [r EXCEPT ![ThreadLocalSlot(t)] = Random(entropy, "random")]

\* _get_rng(): creates the generator when the slot has none
_get_rng(r, t, entropy) ==
    IF r[ThreadLocalSlot(t)] = NoRng THEN reset(r, t, entropy) ELSE r

\* the value a generator returns, and the generator advanced by one call
Draw(got, t) ==
    [id |-> randint(got[ThreadLocalSlot(t)].seed, got[ThreadLocalSlot(t)].pos),
     rng |-> [got EXCEPT ![ThreadLocalSlot(t)].pos = @ + 1]]

\* next_id(): self._get_rng().randint(100000000, 999999999)
next_id(r, t, entropy) == Draw(_get_rng(r, t, entropy), t)

\* the calls next_id can still make on thread t within the bound
CanDraw(r, t, n) == r[ThreadLocalSlot(t)].pos + n <= MaxDraws

\* the seeded run thread t has just ended, if it drew anything
Finished(t) ==
    IF seededBy[t] # NoSeed /\ drawn[t] # <<>>
    THEN {[seed |-> seededBy[t], ids |-> drawn[t]]}
    ELSE {}

----------------------------------------------------------------------------
(* Specification SpecId: two threads calling the module-level functions *)

\* set_id_seed(seed) on thread t
SetIdSeed(t) ==
    \E seed \in Seeds :
        /\ rng' = set_seed(rng, t, seed)
        /\ idCall' = [op |-> "set_id_seed", thread |-> t]
        /\ epochs' = epochs \cup Finished(t)
        /\ seededBy' = [seededBy EXCEPT ![t] = seed]
        /\ drawn' = [drawn EXCEPT ![t] = <<>>]
        /\ UNCHANGED <<escVars, pkgVars, docVars, formVars>>

\* reset_id_seed() on thread t
ResetIdSeed(t) ==
    \E entropy \in Seeds :
        /\ rng' = reset(rng, t, entropy)
        /\ idCall' = [op |-> "reset_id_seed", thread |-> t]
        /\ epochs' = epochs \cup Finished(t)
        /\ seededBy' = [seededBy EXCEPT ![t] = NoSeed]
        /\ drawn' = [drawn EXCEPT ![t] = <<>>]
        /\ UNCHANGED <<escVars, pkgVars, docVars, formVars>>

\* _unique_id() on thread t
UniqueId(t) ==
    /\ CanDraw(rng, t, 1)
    /\ \E entropy \in Seeds :
        LET got == next_id(rng, t, entropy)
        IN  /\ rng' = got.rng
            /\ idCall' = [op |-> "_unique_id", thread |-> t]
            /\ drawn' = [drawn EXCEPT ![t] = Append(@, got.id)]
            /\ UNCHANGED <<seededBy, epochs, escVars, pkgVars, docVars,
                           formVars>>

InitId ==
    /\ IdIdle
    /\ EscIdle
    /\ PkgIdle
    /\ DocIdle
    /\ FormIdle

NextId ==
    \/ \E t \in Threads : SetIdSeed(t)
    \/ \E t \in Threads : ResetIdSeed(t)
    \/ \E t \in Threads : UniqueId(t)

SpecId == InitId /\ [][NextId]_vars

----------------------------------------------------------------------------
(* Claims C6 and C7: the ID generator *)

\* the IDs thread t would draw next: nothing is fixed while its slot holds
\* no generator
Upcoming(t) ==
    LET r == rng[ThreadLocalSlot(t)]
    IN  IF r = NoRng THEN <<>>
        ELSE [k \in 1..2 |-> randint(r.seed, r.pos + k - 1)]

\* C6: a call of set_id_seed, reset_id_seed or _unique_id on one thread
\* leaves the IDs every other thread will draw next as they were
C6_OtherThreadsUndisturbed ==
    [][\A t \in Threads :
          idCall'.thread # t => Upcoming(t)' = Upcoming(t)]_vars

\* thread 2 has drawn from its seeded generator, and thread 1 then set a
\* seed of its own
C6_Witness ==
    /\ idCall = [op |-> "set_id_seed", thread |-> 1]
    /\ seededBy[2] = 42
    /\ Len(drawn[2]) = 2
    /\ seededBy[1] = 31129490

IsPrefix(a, b) == Len(a) <= Len(b) /\ SubSeq(b, 1, Len(a)) = a

\* the seeded runs seen so far: the finished ones and each thread's current
Runs ==
    epochs \cup
    {[seed |-> seededBy[t], ids |-> drawn[t]] :
        t \in {u \in Threads : seededBy[u] # NoSeed}}

\* C7: two runs that started by setting the same seed drew the same IDs,
\* as far as both of them went
C7_SameSeedSameIds ==
    \A a, b \in Runs :
        a.seed = b.seed => IsPrefix(a.ids, b.ids) \/ IsPrefix(b.ids, a.ids)

\* thread 1 drew two IDs under seed 42, then one under another seed, and
\* has drawn two again under seed 42
C7_Witness ==
    /\ seededBy[1] = 42
    /\ Len(drawn[1]) = 2
    /\ \E a \in epochs : a.seed = 42 /\ Len(a.ids) = 2
    /\ \E b \in epochs : b.seed = 31129490 /\ b.ids # <<>>

----------------------------------------------------------------------------
(* The document builder (document.py): models and builder operations *)

PAGE_WIDTH == 59530
MARGIN_LEFT == 8504
MARGIN_RIGHT == 8504

\* level -> (charPr ID, paraPr ID, style ID)
_HEADING_MAP ==
    << <<4, 1, 1>>, <<5, 2, 2>>, <<6, 3, 3>>,
       <<7, 4, 4>>, <<8, 5, 5>>, <<9, 6, 6>> >>

Max(a, b) == IF a >= b THEN a ELSE b
Min(a, b) == IF a <= b THEN a ELSE b

\* the thread that builds and saves the document
MainThread == 1

Run(text, char_pr_id_ref) ==
    [text |-> text, char_pr_id_ref |-> char_pr_id_ref]

Paragraph(runs, para_pr_id_ref, style_id_ref) ==
    [runs |-> runs, para_pr_id_ref |-> para_pr_id_ref,
     style_id_ref |-> style_id_ref]

TableCell(text, cpr, col_addr, row_addr, width, border_fill, header) ==
    [paragraphs |-> << Paragraph(<< Run(text, cpr) >>, PARAPR_TABLE, 0) >>,
     col_addr |-> col_addr, row_addr |-> row_addr,
     width |-> width, height |-> 1000,
     border_fill_id_ref |-> border_fill, header |-> header]

\* str(n) for a natural number
RECURSIVE str(_)
str(n) ==
    LET digit == <<"0", "1", "2", "3", "4", "5", "6", "7", "8", "9">>
    IN  IF n < 10 THEN << digit[n + 1] >>
        ELSE str(n \div 10) \o << digit[(n % 10) + 1] >>

Texts == {<<>>, <<"a">>}

\* add_heading(text, level)
add_heading(text, level) ==
    LET clamped == Max(1, Min(6, level))
        ids == _HEADING_MAP[clamped]
        para == Paragraph(<< Run(text, ids[1]) >>, ids[2], ids[3])
    IN  /\ _elements' = Append(_elements, [kind |-> "paragraph", para |-> para])
        /\ docCall' = [NoDocCall EXCEPT !.op = "add_heading",
                                        !.args = [text |-> text,
                                                  level |-> level],
                                        !.result = "Paragraph"]
        /\ UNCHANGED <<_images, _image_counter, _seed>>

\* add_paragraph(text, bold, italic), runs not given
add_paragraph(text, bold, italic) ==
    LET cpr == IF bold /\ italic THEN CHARPR_BOLD_ITALIC
               ELSE IF bold THEN CHARPR_BOLD
               ELSE IF italic THEN CHARPR_ITALIC
               ELSE CHARPR_BODY
        run_objects == IF text # <<>> THEN << Run(text, cpr) >> ELSE <<>>
        para == Paragraph(run_objects, PARAPR_BODY, 0)
    IN  /\ _elements' = Append(_elements, [kind |-> "paragraph", para |-> para])
        /\ docCall' = [NoDocCall EXCEPT !.op = "add_paragraph",
                                        !.args = [text |-> text,
                                                  bold |-> bold,
                                                  italic |-> italic],
                                        !.result = "Paragraph"]
        /\ UNCHANGED <<_images, _image_counter, _seed>>

\* a table whose rows all have as many cells as there are headers
TableOfTruncated(headers, rows) ==
    LET cell(text, ci, ri) ==
            TableCell(text, CHARPR_TABLE_BODY, ci - 1, ri,
                      (PAGE_WIDTH - MARGIN_LEFT - MARGIN_RIGHT)
                        \div Len(headers),
                      BORDERFILL_TABLE, 0)
    IN  [rows |-> << [cells |-> [ci \in 1..Len(headers) |->
                        TableCell(headers[ci], CHARPR_TABLE_HEADER, ci - 1, 0,
                                  (PAGE_WIDTH - MARGIN_LEFT - MARGIN_RIGHT)
                                    \div Len(headers),
                                  BORDERFILL_TABLE_HEADER, 1)]] >>
                  \o [ri \in 1..Len(rows) |->
                        [cells |-> [ci \in 1..Len(headers) |->
                            cell(IF ci <= Len(rows[ri]) THEN rows[ri][ci]
                                 ELSE <<>>, ci, ri)]]],
         row_cnt |-> 1 + Len(rows),
         col_cnt |-> Len(headers),
         width |-> PAGE_WIDTH - MARGIN_LEFT - MARGIN_RIGHT,
         border_fill_id_ref |-> BORDERFILL_TABLE]

\* the Table add_table builds: a header row, then one row for each entry of
\* rows, padded with empty cells up to the number of headers
TableOf(headers, rows) ==
    LET col_cnt == Len(headers)
        usable_width == PAGE_WIDTH - MARGIN_LEFT - MARGIN_RIGHT
        col_width == usable_width \div col_cnt
        header_cells ==
            [ci \in 1..col_cnt |->
                TableCell(headers[ci], CHARPR_TABLE_HEADER, ci - 1, 0,
                          col_width, BORDERFILL_TABLE_HEADER, 1)]
        data_cells(ri) ==
            [ci \in 1..Max(Len(rows[ri]), col_cnt) |->
                TableCell(IF ci <= Len(rows[ri]) THEN rows[ri][ci] ELSE <<>>,
                          CHARPR_TABLE_BODY, ci - 1, ri,
                          col_width, BORDERFILL_TABLE, 0)]
    IN  [rows |-> << [cells |-> header_cells] >>
                  \o [ri \in 1..Len(rows) |-> [cells |-> data_cells(ri)]],
         row_cnt |-> 1 + Len(rows),
         col_cnt |-> col_cnt,
         width |-> usable_width,
         border_fill_id_ref |-> BORDERFILL_TABLE]

\* the headers and rows given to add_table: no header, one header, three
\* headers, a row shorter than the headers, a row longer than the headers
TableInputs ==
    { [headers |-> <<>>, rows |-> <<>>],
      [headers |-> << <<"a">> >>, rows |-> <<>>],
      [headers |-> << <<"a">>, <<"a">>, <<"a">> >>, rows |-> <<>>],
      [headers |-> << <<"a">> >>, rows |-> << <<>> >>],
      [headers |-> << <<"a">> >>, rows |-> << << <<"a">>, <<"a">> >> >>] }

\* add_table(headers, rows): the column width divides by the number of
\* headers before anything is built
add_table(headers, rows) ==
    IF Len(headers) = 0
    THEN /\ docCall' = [NoDocCall EXCEPT !.op = "add_table",
                                         !.args = [headers |-> headers,
                                                   rows |-> rows],
                                         !.result = "ZeroDivisionError"]
         /\ UNCHANGED <<_elements, _images, _image_counter, _seed>>
    ELSE /\ _elements' = Append(_elements,
                                [kind |-> "table",
                                 table |-> TableOf(headers, rows),
                                 para_pr_id_ref |-> PARAPR_BODY,
                                 style_id_ref |-> 0])
         /\ docCall' = [NoDocCall EXCEPT !.op = "add_table",
                                         !.args = [headers |-> headers,
                                                   rows |-> rows],
                                         !.result = "Table"]
         /\ UNCHANGED <<_images, _image_counter, _seed>>

\* s.rfind(c), counted from 1; 0 when c does not occur
LastIndexOf(s, c) ==
    IF \E i \in 1..Len(s) : s[i] = c
    THEN CHOOSE i \in 1..Len(s) :
            s[i] = c /\ \A j \in (i + 1)..Len(s) : s[j] # c
    ELSE 0

\* os.path.splitext(path)[1]: from the last dot of the last component,
\* unless only dots come before it
splitext_ext(path) ==
    LET sepIndex == LastIndexOf(path, SEP)
        dotIndex == LastIndexOf(path, ".")
    IN  IF /\ dotIndex > sepIndex
           /\ \E k \in (sepIndex + 1)..(dotIndex - 1) : path[k] # "."
        THEN SubSeq(path, dotIndex, Len(path))
        ELSE <<>>

\* str.lower() over the letters of the paths used
lower(text) ==
    [i \in 1..Len(text) |->
        CASE text[i] = "J" -> "j"
          [] text[i] = "P" -> "p"
          [] text[i] = "G" -> "g"
          [] OTHER -> text[i]]

EXT_PNG == <<".", "p", "n", "g">>
EXT_JPG == <<".", "j", "p", "g">>
EXT_GIF == <<".", "g", "i", "f">>
EXT_BMP == <<".", "b", "m", "p">>

\* the extension chosen from the first bytes of the data
MagicExt(image_data) ==
    CASE image_data.magic = "\\x89PNG\\r\\n\\x1a\\n" -> EXT_PNG
      [] image_data.magic = "\\xff\\xd8" -> EXT_JPG
      [] image_data.magic = "GIF8" -> EXT_GIF
      [] image_data.magic = "BM" -> EXT_BMP
      [] OTHER -> EXT_PNG

\* mime_map.get(ext, 'image/png')
MediaType(ext) ==
    CASE ext = EXT_PNG -> "image/png"
      [] ext = EXT_JPG -> "image/jpeg"
      [] ext = <<".", "j", "p", "e", "g">> -> "image/jpeg"
      [] ext = EXT_GIF -> "image/gif"
      [] ext = EXT_BMP -> "image/bmp"
      [] ext = <<".", "t", "i", "f">> -> "image/tiff"
      [] ext = <<".", "t", "i", "f", "f">> -> "image/tiff"
      [] OTHER -> "image/png"

\* image bytes, by their first bytes
PNG_DATA == [magic |-> "\\x89PNG\\r\\n\\x1a\\n"]
JPG_DATA == [magic |-> "\\xff\\xd8"]

\* no image_data given
NoData == [magic |-> "None"]

\* what open(image_path).read() may give: the bytes of a file, or no file
FileReads == {PNG_DATA, [magic |-> "FileNotFoundError"]}

A_JPG_PATH == <<"a", ".", "J", "P", "G">>

\* the arguments given to add_image; width and height are always given, so
\* the size is never read from the data
ImageInputs ==
    { [image_path |-> <<>>, image_data |-> NoData],
      [image_path |-> <<>>, image_data |-> PNG_DATA],
      [image_path |-> <<>>, image_data |-> JPG_DATA],
      [image_path |-> A_JPG_PATH, image_data |-> NoData],
      [image_path |-> A_JPG_PATH, image_data |-> PNG_DATA] }

IMAGE_PREFIX == <<"i", "m", "a", "g", "e">>

\* a failing call that has taken an image number
DocRaisedCounted(op, error) ==
    /\ docCall' = [NoDocCall EXCEPT !.op = op, !.result = error]
    /\ _image_counter' = _image_counter + 1
    /\ UNCHANGED <<_elements, _images, _seed>>

\* a call that raises before it changes the document
DocRaised(op, error) ==
    /\ docCall' = [NoDocCall EXCEPT !.op = op, !.result = error]
    /\ UNCHANGED <<_elements, _images, _image_counter, _seed>>

\* add_image(image_path, image_data, width, height); read is what the file at
\* image_path holds, used when no data is given
add_image(image_path, image_data, width, height, read) ==
    IF image_data = NoData /\ image_path = <<>>
    THEN DocRaised("add_image", "ValueError")
    ELSE IF image_data = NoData /\ read.magic = "FileNotFoundError"
    THEN DocRaised("add_image", "FileNotFoundError")
    ELSE
        LET data == IF image_data = NoData THEN read ELSE image_data
            ext == IF image_path # <<>> THEN lower(splitext_ext(image_path))
                   ELSE MagicExt(data)
            item_id == IMAGE_PREFIX \o str(_image_counter + 1)
            image == [binary_item_id |-> item_id,
                      width |-> width, height |-> height,
                      data |-> data, media_type |-> MediaType(ext),
                      _filename |-> item_id \o ext]
        IN  /\ _image_counter' = _image_counter + 1
            /\ _images' = Append(_images, image)
            /\ _elements' = Append(_elements,
                                   [kind |-> "image", image |-> image,
                                    para_pr_id_ref |-> PARAPR_BODY,
                                    style_id_ref |-> 0])
            /\ docCall' = [NoDocCall EXCEPT !.op = "add_image",
                                            !.result = "Image"]
            /\ UNCHANGED _seed

----------------------------------------------------------------------------
(* The section serializer (xml_writer.py), as the tree of what it writes *)

\* an ID put ahead of the IDs drawn after it
IdThen(id, rest) == [ids |-> <<id>> \o rest.ids, rng |-> rest.rng]

\* n calls of _unique_id on thread t, in order
RECURSIVE DrawIds(_, _, _, _)
DrawNext(got, t, entropy, n) ==
    IdThen(got.id, DrawIds(got.rng, t, entropy, n))

DrawIds(r, t, entropy, n) ==
    IF n = 0 THEN [ids |-> <<>>, rng |-> r]
    ELSE DrawNext(next_id(r, t, entropy), t, entropy, n - 1)

\* write_paragraph(para, is_first): the first run carries secPr when the
\* paragraph is the first one; with no run, one is written to carry it
write_paragraph(para, is_first) ==
    [tag |-> "hp:p",
     paraPrIDRef |-> para.para_pr_id_ref,
     styleIDRef |-> para.style_id_ref,
     runs |->
        IF para.runs # <<>>
        THEN [i \in 1..Len(para.runs) |->
                [charPrIDRef |-> para.runs[i].char_pr_id_ref,
                 secPr |-> is_first /\ i = 1,
                 t |-> << _esc(para.runs[i].text) >>]]
        ELSE IF is_first
        THEN << [charPrIDRef |-> 0, secPr |-> TRUE, t |-> <<>>] >>
        ELSE <<>>]

\* the cells of the rows before row ri
RECURSIVE CellsBefore(_, _)
CellsBefore(rows, ri) ==
    IF ri = 1 THEN 0
    ELSE CellsBefore(rows, ri - 1) + Len(rows[ri - 1].cells)

CellCount(table) == CellsBefore(table.rows, Len(table.rows) + 1)

\* the cell at row ri, column ci, with its sub_id among the IDs drawn
TableCellXml(table, ri, ci, ids) ==
    [header |-> table.rows[ri].cells[ci].header,
     borderFillIDRef |-> table.rows[ri].cells[ci].border_fill_id_ref,
     subList |->
        [id |-> ids[1 + CellsBefore(table.rows, ri) + ci],
         paragraphs |->
            [k \in 1..Len(table.rows[ri].cells[ci].paragraphs) |->
                write_paragraph(table.rows[ri].cells[ci].paragraphs[k],
                                FALSE)]],
     colAddr |-> table.rows[ri].cells[ci].col_addr,
     rowAddr |-> table.rows[ri].cells[ci].row_addr,
     width |-> table.rows[ri].cells[ci].width,
     height |-> table.rows[ri].cells[ci].height]

TableXml(table, para_pr_id_ref, style_id_ref, d) ==
    [xml |->
        [tag |-> "hp:tbl",
         paraPrIDRef |-> para_pr_id_ref,
         styleIDRef |-> style_id_ref,
         id |-> d.ids[1],
         rowCnt |-> table.row_cnt, colCnt |-> table.col_cnt,
         borderFillIDRef |-> table.border_fill_id_ref,
         width |-> table.width,
         rows |-> [ri \in 1..Len(table.rows) |->
                     [ci \in 1..Len(table.rows[ri].cells) |->
                         TableCellXml(table, ri, ci, d.ids)]]],
     rng |-> d.rng]

\* write_table_paragraph(table, para_pr_id_ref, style_id_ref): tbl_id is
\* drawn first, then one sub_id for each cell, row by row
write_table_paragraph(table, para_pr_id_ref, style_id_ref, r, t, entropy) ==
    TableXml(table, para_pr_id_ref, style_id_ref,
             DrawIds(r, t, entropy, 1 + CellCount(table)))

PicXml(image, para_pr_id_ref, style_id_ref, d) ==
    [xml |->
        [tag |-> "hp:pic",
         paraPrIDRef |-> para_pr_id_ref,
         styleIDRef |-> style_id_ref,
         id |-> d.ids[1],
         instid |-> d.ids[2],
         width |-> image.width, height |-> image.height,
         binaryItemIDRef |-> _esc_attr(image.binary_item_id)],
     rng |-> d.rng]

\* write_image_paragraph(image, para_pr_id_ref, style_id_ref): pic_id is
\* drawn first, then instid
write_image_paragraph(image, para_pr_id_ref, style_id_ref, r, t, entropy) ==
    PicXml(image, para_pr_id_ref, style_id_ref, DrawIds(r, t, entropy, 2))

\* Paragraph(runs=[], para_pr_id_ref=0, style_id_ref=0)
EmptyPara == Paragraph(<<>>, 0, 0)

\* a table or image paragraph with no paragraph written ahead of it
Unwrapped(is_first, w) == [xml |-> << w.xml >>, rng |-> w.rng]

\* a table or image paragraph; in the first place an empty paragraph with
\* secPr is written ahead of it
Wrapped(is_first, w) ==
    [xml |-> (IF is_first THEN << write_paragraph(EmptyPara, TRUE) >>
              ELSE <<>>)
             \o << w.xml >>,
     rng |-> w.rng]

\* the branch of write_section_xml for one element
WriteElement(elem, is_first, r, t, entropy) ==
    IF elem.kind = "paragraph"
    THEN [xml |-> << write_paragraph(elem.para, is_first) >>, rng |-> r]
    ELSE IF elem.kind = "table"
    THEN Wrapped(is_first,
                 write_table_paragraph(elem.table, elem.para_pr_id_ref,
                                       elem.style_id_ref, r, t, entropy))
    ELSE Wrapped(is_first,
                 write_image_paragraph(elem.image, elem.para_pr_id_ref,
                                       elem.style_id_ref, r, t, entropy))

LinesThen(xml, rest) == [xml |-> xml \o rest.xml, rng |-> rest.rng]

\* write_section_xml(elements, first_para_idx=0), from element i on
RECURSIVE WriteElements(_, _, _, _, _)
WriteRest(one, elems, i, t, entropy) ==
    LinesThen(one.xml, WriteElements(elems, i + 1, one.rng, t, entropy))

WriteElements(elems, i, r, t, entropy) ==
    IF i > Len(elems) THEN [xml |-> <<>>, rng |-> r]
    ELSE WriteRest(WriteElement(elems[i], i - 1 = 0, r, t, entropy),
                   elems, i, t, entropy)

write_section_xml(elems, r, t, entropy) ==
    WriteElements(elems, 1, r, t, entropy)

\* the IDs the serializer draws for one element, and for all of them
IdsOf(elem) ==
    IF elem.kind = "table" THEN 1 + CellCount(elem.table)
    ELSE IF elem.kind = "image" THEN 2
    ELSE 0

RECURSIVE IdsNeeded(_)
IdsNeeded(elems) ==
    IF elems = <<>> THEN 0 ELSE IdsOf(Head(elems)) + IdsNeeded(Tail(elems))

----------------------------------------------------------------------------
(* Packaging and saving a document (document.py) *)

VERSION_PATH ==
    <<"v", "e", "r", "s", "i", "o", "n", ".", "x", "m", "l">>

SETTINGS_PATH ==
    <<"s", "e", "t", "t", "i", "n", "g", "s", ".", "x", "m", "l">>

CONTAINER_XML_PATH ==
    <<"M", "E", "T", "A", "-", "I", "N", "F", "/", "c", "o", "n", "t",
      "a", "i", "n", "e", "r", ".", "x", "m", "l">>

MANIFEST_PATH ==
    <<"M", "E", "T", "A", "-", "I", "N", "F", "/", "m", "a", "n", "i",
      "f", "e", "s", "t", ".", "x", "m", "l">>

CONTAINER_RDF_PATH ==
    <<"M", "E", "T", "A", "-", "I", "N", "F", "/", "c", "o", "n", "t",
      "a", "i", "n", "e", "r", ".", "r", "d", "f">>

CONTENT_HPF_PATH ==
    <<"C", "o", "n", "t", "e", "n", "t", "s", "/", "c", "o", "n", "t",
      "e", "n", "t", ".", "h", "p", "f">>

HEADER_PATH ==
    <<"C", "o", "n", "t", "e", "n", "t", "s", "/", "h", "e", "a", "d",
      "e", "r", ".", "x", "m", "l">>

PRV_TEXT_PATH ==
    <<"P", "r", "e", "v", "i", "e", "w", "/", "P", "r", "v", "T", "e",
      "x", "t", ".", "t", "x", "t">>

BINDATA_DIR ==
    <<"B", "i", "n", "D", "a", "t", "a", "/">>

\* write_mimetype()
write_mimetype == [type |-> "bytes", data |-> "application/hwp+zip"]

\* a file written from fixed text or from the default registries
FixedXml(name) == [type |-> "str", data |-> name]

\* write_content_hpf(images): one manifest item for each image
write_content_hpf(imgs) ==
    [type |-> "str",
     data |-> [i \in 1..Len(imgs) |->
                [id |-> _esc_attr(imgs[i].binary_item_id),
                 href |-> BINDATA_DIR \o _esc_attr(imgs[i]._filename),
                 media_type |-> imgs[i].media_type]]]

\* text.strip() is empty
IsBlank(text) == \A i \in 1..Len(text) : text[i] \in {" ", "\t", "\n"}

\* the run texts of a paragraph that are not blank
ParaTexts(para) ==
    LET kept == SelectSeq(para.runs, LAMBDA run : ~IsBlank(run.text))
    IN  [i \in 1..Len(kept) |-> kept[i].text]

\* the texts of the cells of a table, row by row
RECURSIVE RowTexts(_)
RowTexts(cells) ==
    IF cells = <<>> THEN <<>>
    ELSE ParaTexts(Head(cells).paragraphs[1]) \o RowTexts(Tail(cells))

RECURSIVE TableTexts(_)
TableTexts(rows) ==
    IF rows = <<>> THEN <<>>
    ELSE RowTexts(Head(rows).cells) \o TableTexts(Tail(rows))

RECURSIVE ElementTexts(_)
ElementTexts(elems) ==
    IF elems = <<>> THEN <<>>
    ELSE (IF Head(elems).kind = "paragraph"
          THEN ParaTexts(Head(elems).para)
          ELSE IF Head(elems).kind = "table"
          THEN TableTexts(Head(elems).table.rows)
          ELSE <<>>)
         \o ElementTexts(Tail(elems))

PREVIEW_LIMIT == 200

\* _get_preview_text(): ' '.join(texts)[:200]
_get_preview_text(elems) ==
    LET joined == Join(ElementTexts(elems), " ")
    IN  SubSeq(joined, 1, Min(Len(joined), PREVIEW_LIMIT))

\* write_prv_text(text)
write_prv_text(text) ==
    [type |-> "str",
     data |-> IF text # <<>>
              THEN SubSeq(text, 1, Min(Len(text), PREVIEW_LIMIT))
              ELSE <<" ">>]

\* the elements after _build_section_xml: an empty document gets one empty
\* paragraph, which stays in _elements
Filled(elems) ==
    IF elems = <<>>
    THEN << [kind |-> "paragraph", para |-> Paragraph(<<>>, PARAPR_BODY, 0)] >>
    ELSE elems

SectionOf(filled, w) == [elements |-> filled, xml |-> w.xml, rng |-> w.rng]

\* _build_section_xml()
_build_section_xml(elems, r, t, entropy) ==
    SectionOf(Filled(elems), write_section_xml(Filled(elems), r, t, entropy))

\* pkg.add_file(path, content) for each entry in turn; the first path that
\* is refused raises and ends the build
RECURSIVE AddFiles(_, _)
AddFiles(pkg, entries) ==
    IF entries = <<>> \/ pkg.error # "None" THEN pkg
    ELSE IF ValidatePath(Head(entries).path) # "ok"
    THEN [pkg EXCEPT !.error = "ValueError"]
    ELSE AddFiles([pkg EXCEPT !.files =
                        PutFile(@, Head(entries).path,
                                Encode(Head(entries).content))],
                  Tail(entries))

\* the add_file calls of _build_package, in order
PackageEntries(sec, imgs) ==
    << [path |-> MIMETYPE_PATH, content |-> write_mimetype],
       [path |-> VERSION_PATH, content |-> FixedXml("version.xml")],
       [path |-> SETTINGS_PATH, content |-> FixedXml("settings.xml")],
       [path |-> CONTAINER_XML_PATH, content |-> FixedXml("container.xml")],
       [path |-> MANIFEST_PATH, content |-> FixedXml("manifest.xml")],
       [path |-> CONTAINER_RDF_PATH, content |-> FixedXml("container.rdf")],
       [path |-> CONTENT_HPF_PATH, content |-> write_content_hpf(imgs)],
       [path |-> HEADER_PATH, content |-> FixedXml("header.xml")],
       [path |-> SECTION0_PATH, content |-> [type |-> "str", data |-> sec.xml]],
       [path |-> PRV_TEXT_PATH,
        content |-> write_prv_text(_get_preview_text(sec.elements))] >>
    \o [i \in 1..Len(imgs) |->
            [path |-> BINDATA_DIR \o imgs[i]._filename,
             content |-> [type |-> "bytes", data |-> imgs[i].data]]]

PackageOf(sec, pkg) ==
    [files |-> pkg.files, error |-> pkg.error,
     elements |-> sec.elements, section |-> sec.xml, rng |-> sec.rng]

\* _build_package(), given the section _build_section_xml has built
_build_package(sec, imgs) ==
    PackageOf(sec, AddFiles([files |-> <<>>, error |-> "None"],
                            PackageEntries(sec, imgs)))

----------------------------------------------------------------------------
(* Specification SpecDoc: one document at a time, built and saved on the
   main thread *)

DocSeeds == Seeds \cup {NoSeed}

\* HwpxDocument.new(seed)
NewDocument ==
    /\ docCall.op # "new"
    /\ \E seed \in DocSeeds : _seed' = seed
    /\ _elements' = <<>>
    /\ _images' = <<>>
    /\ _image_counter' = 0
    /\ docCall' = NoDocCall
    /\ _border_fills' = default_border_fills(NoConfig)
    /\ _char_prs' = default_char_prs
    /\ _para_prs' = default_para_prs
    /\ _styles' = default_styles
    /\ UNCHANGED <<mdVars, escVars, pkgVars, idVars, formVars, sizeVars>>

AddHeading ==
    /\ Len(_elements) < MaxElems
    /\ \E level \in {0, 7} : add_heading(<<"a">>, level)
    /\ UNCHANGED <<mdVars, regVars, escVars, pkgVars, idVars, formVars, sizeVars>>

AddParagraph ==
    /\ Len(_elements) < MaxElems
    /\ \E text \in Texts, bold \in BOOLEAN, italic \in BOOLEAN :
            add_paragraph(text, bold, italic)
    /\ UNCHANGED <<mdVars, regVars, escVars, pkgVars, idVars, formVars, sizeVars>>

AddTable ==
    /\ Len(_elements) < MaxElems
    /\ \E input \in TableInputs :
        /\ \/ input.headers = <<>>
           \/ IdsNeeded(_elements)
                + 1 + CellCount(TableOf(input.headers, input.rows))
              <= MaxDocIds
        /\ add_table(input.headers, input.rows)
    /\ UNCHANGED <<mdVars, regVars, escVars, pkgVars, idVars, formVars, sizeVars>>

AddImage ==
    /\ Len(_elements) < MaxElems
    /\ IdsNeeded(_elements) + 2 <= MaxDocIds
    /\ \E input \in ImageInputs, read \in FileReads :
            add_image(input.image_path, input.image_data, 7500, 7500, read)
    /\ UNCHANGED <<mdVars, regVars, escVars, pkgVars, idVars, formVars, sizeVars>>

\* the states the operating system may give a new Random(): any of them
\* when one is created, and a single one to stand for it when none is
Entropy(created) ==
    IF created THEN Seeds ELSE {CHOOSE entropy \in Seeds : TRUE}

\* save(path) and to_bytes(): seed the generator when the document has a
\* seed, build the package, write the archive, reset the generator
Serialize(op) ==
    LET seeded == _seed # NoSeed
        r0 == IF seeded THEN set_seed(rng, MainThread, _seed) ELSE rng
    IN  /\ r0[ThreadLocalSlot(MainThread)].pos + IdsNeeded(_elements)
             <= MaxDocIds
        /\ \E entropy \in Entropy(r0[ThreadLocalSlot(MainThread)] = NoRng),
              fresh \in Entropy(seeded) :
            \E sec \in {_build_section_xml(_elements, r0, MainThread,
                                          entropy)} :
            \E b \in {_build_package(sec, _images)} :
                /\ rng' = IF b.error = "None" /\ seeded
                          THEN reset(b.rng, MainThread, fresh)
                          ELSE b.rng
                /\ _elements' = b.elements
                /\ docCall' =
                    [op |-> op,
                     args |-> <<>>,
                     result |-> IF b.error # "None" THEN b.error
                                ELSE IF op = "save" THEN "None" ELSE "bytes",
                     archive |-> IF b.error = "None" THEN ZipWrite(b.files)
                                 ELSE <<>>,
                     section |-> b.section]
        /\ UNCHANGED <<_images, _image_counter, _seed>>

\* save(path)
Save ==
    /\ Serialize("save")
    /\ UNCHANGED <<idCall, seededBy, drawn, epochs, escVars, pkgVars,
                   formVars, regVars, mdVars,
                   sizeVars>>

\* to_bytes()
ToBytes ==
    /\ Serialize("to_bytes")
    /\ UNCHANGED <<idCall, seededBy, drawn, epochs, escVars, pkgVars,
                   formVars, regVars, mdVars,
                   sizeVars>>

InitDoc ==
    /\ _seed \in DocSeeds
    /\ _elements = <<>>
    /\ _images = <<>>
    /\ _image_counter = 0
    /\ docCall = NoDocCall
    /\ NewRegistry
    /\ ast = <<>>
    /\ SizeIdle
    /\ FormIdle
    /\ EscIdle
    /\ PkgIdle
    /\ IdIdle

NextDoc ==
    \/ NewDocument
    \/ AddHeading
    \/ AddParagraph
    \/ AddTable
    \/ AddImage
    \/ Save
    \/ ToBytes

SpecDoc == InitDoc /\ [][NextDoc]_vars

----------------------------------------------------------------------------
(* Claims C1 and C8: the archive and the IDs of a saved document *)

Serialized == docCall.op \in {"save", "to_bytes"}

\* C1: whatever was added to the document, save() and to_bytes() produce an
\* archive whose first entry is mimetype, stored without compression, with
\* the bytes application/hwp+zip as its content
C1_MimetypeFirstStored ==
    Serialized =>
        /\ docCall.result \in {"None", "bytes"}
        /\ docCall.archive # <<>>
        /\ docCall.archive[1] =
              [name |-> MIMETYPE_PATH, compress_type |-> "ZIP_STORED",
               content |-> [type |-> "bytes", data |-> "application/hwp+zip"]]
        /\ \A i \in 2..Len(docCall.archive) :
              docCall.archive[i].name # MIMETYPE_PATH

\* a document holding a table and an image has been written by to_bytes
C1_Witness ==
    /\ docCall.op = "to_bytes"
    /\ Len(_images) = 1
    /\ \E i \in 1..Len(_elements) : _elements[i].kind = "table"
    /\ Len(docCall.archive) = 11

\* the IDs written into one paragraph of the section, in document order
RECURSIVE RowIds(_)
RowIds(cells) ==
    IF cells = <<>> THEN <<>>
    ELSE << Head(cells).subList.id >> \o RowIds(Tail(cells))

RECURSIVE TableIds(_)
TableIds(rows) ==
    IF rows = <<>> THEN <<>> ELSE RowIds(Head(rows)) \o TableIds(Tail(rows))

RECURSIVE SectionIds(_)
SectionIds(section) ==
    IF section = <<>> THEN <<>>
    ELSE (IF Head(section).tag = "hp:tbl"
          THEN << Head(section).id >> \o TableIds(Head(section).rows)
          ELSE IF Head(section).tag = "hp:pic"
          THEN << Head(section).id, Head(section).instid >>
          ELSE <<>>)
         \o SectionIds(Tail(section))

\* C8: the table ids, sub-list ids, picture ids and instids written into
\* one section are pairwise distinct
C8_SectionIdsDistinct ==
    Serialized =>
        LET ids == SectionIds(docCall.section)
        IN  \A i, j \in 1..Len(ids) : i # j => ids[i] # ids[j]

----------------------------------------------------------------------------
(* The form engine (form.py): placeholders and fill *)

OPEN == <<"{", "{">>

\* the index of the first "}" of text at or after i; 0 when there is none
FirstClose(text, i) ==
    IF \E k \in i..Len(text) : text[k] = "}"
    THEN CHOOSE k \in i..Len(text) :
            text[k] = "}" /\ \A j \in i..(k - 1) : text[j] # "}"
    ELSE 0

\* the name ends before the "}" at k: it is not empty and "}}" follows it
MatchClosedAt(text, i, k) ==
    IF k > i + 2 /\ k + 1 <= Len(text) /\ text[k + 1] = "}" THEN k + 1 ELSE 0

\* _PLACEHOLDER_RE = \{\{([^}]+)\}\} tried at index i: the index of the last
\* character of the match, 0 when it does not match there
MatchEnd(text, i) ==
    IF i + 1 <= Len(text) /\ text[i] = "{" /\ text[i + 1] = "{"
    THEN MatchClosedAt(text, i, FirstClose(text, i + 2))
    ELSE 0

\* m.group(1) of a match m, given as its text m.group(0)
Group1(m) == SubSeq(m, 3, Len(m) - 2)

\* '\n'.join(str(v) for v in val)
JoinLines(items) == Join(items, "\n")

\* str(val), or the lines of a list joined
ValueText(val) ==
    IF val.kind = "list" THEN JoinLines(val.items) ELSE val.text

\* _replace_match that removes a missing name under every policy
_replace_match_blank(m, data, missing) ==
    IF Group1(m) \in DOMAIN data
    THEN [text |-> ValueText(data[Group1(m)]), error |-> FALSE]
    ELSE [text |-> <<>>, error |-> FALSE]

\* _replace_match(m): the mapped value; for a name the map lacks, nothing
\* under "blank", KeyError under "error", the match itself otherwise
_replace_match(m, data, missing) ==
    IF Group1(m) \in DOMAIN data
    THEN [text |-> ValueText(data[Group1(m)]), error |-> FALSE]
    ELSE IF missing = "blank" THEN [text |-> <<>>, error |-> FALSE]
    ELSE IF missing = "error" THEN [text |-> <<>>, error |-> TRUE]
    ELSE [text |-> m, error |-> FALSE]

\* a piece of the result followed by the rest; an error in either is the
\* error of the whole
PieceThen(piece, rest) ==
    [text |-> piece.text \o rest.text, error |-> piece.error \/ rest.error]

\* _PLACEHOLDER_RE.sub(_replace_match, text), from index i on: the leftmost
\* match is replaced and the scan goes on after it
RECURSIVE Sub(_, _, _, _)
SubFrom(text, i, e, data, missing) ==
    IF e = 0
    THEN PieceThen([text |-> << text[i] >>, error |-> FALSE],
                   Sub(text, i + 1, data, missing))
    ELSE PieceThen(_replace_match(SubSeq(text, i, e), data, missing),
                   Sub(text, e + 1, data, missing))

Sub(text, i, data, missing) ==
    IF i > Len(text) THEN [text |-> <<>>, error |-> FALSE]
    ELSE SubFrom(text, i, MatchEnd(text, i), data, missing)

\* t_elem.tag.endswith('}t') or t_elem.tag == 't'
IsT(tag) == tag.local = "t"

\* t_elem.text = ...: not reached when the substitution raised
Assigned(node, res) ==
    IF res.error THEN [node |-> node, error |-> TRUE]
    ELSE [node |-> [node EXCEPT !.text = res.text], error |-> FALSE]

\* the body of the loop of _fill_element for one element
FillNode(node, data, missing) ==
    IF ~IsT(node.tag) \/ node.text = <<>> \/ ~Contains(node.text, OPEN)
    THEN [node |-> node, error |-> FALSE]
    ELSE Assigned(node, Sub(node.text, 1, data, missing))

NodeThen(one, rest) ==
    [nodes |-> << one.node >> \o rest.nodes, error |-> rest.error]

\* _fill_element(root, data, missing): the elements of root.iter() in turn;
\* the element at which the substitution raises, and those after it, stay
RECURSIVE _fill_element(_, _, _, _)
FillRest(one, nodes, i, data, missing) ==
    IF one.error
    THEN [nodes |-> SubSeq(nodes, i, Len(nodes)), error |-> TRUE]
    ELSE NodeThen(one, _fill_element(nodes, i + 1, data, missing))

_fill_element(nodes, i, data, missing) ==
    IF i > Len(nodes) THEN [nodes |-> <<>>, error |-> FALSE]
    ELSE FillRest(FillNode(nodes[i], data, missing), nodes, i, data, missing)

SectionThen(one, rest) ==
    [sections |-> << one.nodes >> \o rest.sections, error |-> rest.error]

\* fill(data, missing): the sections in the order of _section_paths; the
\* section in which _fill_element raises ends the call
RECURSIVE fill(_, _, _, _)
FillNext(one, secs, k, data, missing) ==
    IF one.error
    THEN [sections |-> << one.nodes >> \o SubSeq(secs, k + 1, Len(secs)),
          error |-> TRUE]
    ELSE SectionThen(one, fill(secs, k + 1, data, missing))

fill(secs, k, data, missing) ==
    IF k > Len(secs) THEN [sections |-> <<>>, error |-> FALSE]
    ELSE FillNext(_fill_element(secs[k], 1, data, missing),
                  secs, k, data, missing)

\* _PLACEHOLDER_RE.finditer(text): the matches from index i on, leftmost
\* first, none overlapping another
RECURSIVE finditer(_, _)
MatchesFrom(text, i, e) ==
    IF e = 0 THEN finditer(text, i + 1)
    ELSE << [start |-> i, stop |-> e] >> \o finditer(text, e + 1)

finditer(text, i) ==
    IF i > Len(text) THEN <<>> ELSE MatchesFrom(text, i, MatchEnd(text, i))

CR == "\r"
LF == "\n"
FF == "\f"

\* characters that XML 1.0 does not allow in a document
IllegalChars == {FF}

\* the characters of the model in the order of their code points
CodePoints ==
    <<FF, LF, CR, "&", "0", "1", "<", ">", "X", "Y", "Z", "a", "b", "x",
      "{", "}">>

ord(c) == IndexOf(CodePoints, c)

\* a < b for two str values, as Python compares them
RECURSIVE StrLess(_, _)
StrLess(a, b) ==
    IF b = <<>> THEN FALSE
    ELSE IF a = <<>> THEN TRUE
    ELSE IF Head(a) = Head(b) THEN StrLess(Tail(a), Tail(b))
    ELSE ord(Head(a)) < ord(Head(b))

\* list.sort() / sorted() of str values
RECURSIVE sorted(_)
Inserted(x, s) ==
    LET before == SelectSeq(s, LAMBDA y : ~StrLess(x, y))
        after == SelectSeq(s, LAMBDA y : StrLess(x, y))
    IN  before \o <<x>> \o after

sorted(s) == IF s = <<>> THEN <<>> ELSE Inserted(Head(s), sorted(Tail(s)))

\* the names of the matches in one text
NamesIn(text) ==
    {Group1(SubSeq(text, finditer(text, 1)[n].start, finditer(text, 1)[n].stop))
        : n \in 1..Len(finditer(text, 1))}

\* the names one element adds to found
NamesOf(node) ==
    IF IsT(node.tag) /\ node.text # <<>> THEN NamesIn(node.text) ELSE {}

\* found: the names in the texts of the text elements of every section
Found(secs) ==
    UNION {UNION {NamesOf(secs[k][i]) : i \in 1..Len(secs[k])} :
              k \in 1..Len(secs)}

\* the elements of a set in the order a loop over it meets them
RECURSIVE Listed(_)
Listed(S) ==
    IF S = {} THEN <<>>
    ELSE << CHOOSE x \in S : TRUE >> \o Listed(S \ {CHOOSE x \in S : TRUE})

\* the sort from the largest to the smallest
sorted_reverse(s) == [i \in 1..Len(sorted(s)) |-> sorted(s)[Len(s) + 1 - i]]

\* sorted(found)
sorted_found(s) == sorted(s)

\* the property placeholders
placeholders(secs) == sorted_found(Listed(Found(secs)))

----------------------------------------------------------------------------
(* Specification SpecForm: an opened form, filled any number of times *)

\* most elements in the section trees of one form
MaxNodes == 3

HP_T == [ns |-> "hp", local |-> "t"]
HP_RUN == [ns |-> "hp", local |-> "run"]

NAME_A == <<"a">>
NAME_B == <<"b">>
TOKEN_A == <<"{", "{", "a", "}", "}">>
TOKEN_B == <<"{", "{", "b", "}", "}">>

\* the texts of the text elements: none, plain, one token, two tokens, a
\* token after a brace, and a token that is not closed
FormTexts ==
    { <<>>, <<"x">>, TOKEN_A, TOKEN_B, TOKEN_A \o <<"x">> \o TOKEN_B,
      <<"{">> \o TOKEN_A, <<"{", "{", "a", "}">> }

\* the elements root.iter() yields: text elements, and one that is not
FormNodes ==
    {[tag |-> HP_T, text |-> text] : text \in FormTexts}
    \cup {[tag |-> HP_RUN, text |-> TOKEN_A]}

\* the elements of two section trees, in the order root.iter() yields them
SplitAt(nodes, k) ==
    << SubSeq(nodes, 1, k), SubSeq(nodes, k + 1, Len(nodes)) >>

\* the forms: up to MaxNodes elements, divided between two sections
FormDocs ==
    UNION {{SplitAt(nodes, k) : k \in 0..Len(nodes)} :
              nodes \in StrsUpTo(FormNodes, MaxNodes)}

SECTION1_PATH ==
    <<"C", "o", "n", "t", "e", "n", "t", "s", "/",
      "s", "e", "c", "t", "i", "o", "n", "1", ".", "x", "m", "l">>

\* the entries of an archive that holds two sections and nothing else
TwoSections == << SECTION0_PATH, SECTION1_PATH >>

StrValue(text) == [kind |-> "str", text |-> text]
ListValue(items) == [kind |-> "list", items |-> items]

\* the dicts given to fill
FillMaps ==
    { <<>>,
      NAME_A :> StrValue(<<"X">>),
      (NAME_A :> StrValue(<<>>))
          @@ (NAME_B :> ListValue(<< <<"Y">>, <<"Z">> >>)) }

\* fill(data, missing)
Fill ==
    \E data \in FillMaps, missing \in {"keep", "blank", "error"} :
        \E res \in {fill(sections, 1, data, missing)} :
            /\ sections' = res.sections
            /\ formCall' = [op |-> "fill", data |-> data, missing |-> missing,
                            result |-> IF res.error THEN "KeyError"
                                       ELSE "self",
                            before |-> sections]
            /\ UNCHANGED <<escVars, pkgVars, idVars, docVars, zipVars>>

\* the property placeholders, read
Placeholders ==
    /\ formCall' = [op |-> "placeholders", data |-> <<>>, missing |-> "keep",
                    result |-> placeholders(sections), before |-> sections]
    /\ UNCHANGED <<sections, zipVars>>
    /\ UNCHANGED <<escVars, pkgVars, idVars, docVars>>

InitForm ==
    /\ sections \in FormDocs
    /\ formCall = NoFormCall
    /\ _files = <<>>
    /\ _xml_files = TwoSections
    /\ _section_paths = TwoSections
    /\ saved = <<>>
    /\ EscIdle
    /\ PkgIdle
    /\ IdIdle
    /\ DocIdle

NextForm ==
    \/ Fill
    \/ Placeholders

SpecForm == InitForm /\ [][NextForm]_vars

----------------------------------------------------------------------------
(* Claims C9 and C10: fill under the policies "error" and "keep" *)

\* C9: when fill(data, missing="error") raises KeyError, every text of
\* every section is what it was before the call
C9_FailedFillChangesNothing ==
    (formCall.op = "fill" /\ formCall.result = "KeyError")
        => sections = formCall.before

\* a token as it stands after the call: the mapped value when its name is a
\* key of the map, the token itself when it is not
TokenKept(token, data) ==
    IF Group1(token) \in DOMAIN data THEN ValueText(data[Group1(token)])
    ELSE token

\* the text from index i on, with each token in matches put as TokenKept
\* and every other character as it was
RECURSIVE KeepFilled(_, _, _, _)
KeepFilled(text, matches, i, data) ==
    IF matches = <<>> THEN SubSeq(text, i, Len(text))
    ELSE SubSeq(text, i, Head(matches).start - 1)
         \o TokenKept(SubSeq(text, Head(matches).start, Head(matches).stop),
                      data)
         \o KeepFilled(text, Tail(matches), Head(matches).stop + 1, data)

----------------------------------------------------------------------------
(* Claim C11: fill under the policy "blank" *)

\* C11: after fill(data, missing="blank") has returned, the text of no
\* text element of any section contains the substring {{
C11_BlankLeavesNoOpening ==
    (formCall.op = "fill" /\ formCall.missing = "blank") =>
        \A k \in 1..Len(sections) : \A i \in 1..Len(sections[k]) :
            IsT(sections[k][i].tag) => ~Contains(sections[k][i].text, OPEN)

----------------------------------------------------------------------------
(* The form archive (form.py): from_bytes / open, save / to_bytes, over *)
(* xml.etree.ElementTree                                                *)

EndsWith(s, p) ==
    Len(p) <= Len(s) /\ SubSeq(s, Len(s) - Len(p) + 1, Len(s)) = p

SECTION_PREFIX ==
    <<"C", "o", "n", "t", "e", "n", "t", "s", "/",
      "s", "e", "c", "t", "i", "o", "n">>

XML_SUFFIX == <<".", "x", "m", "l">>

\* entry.startswith('Contents/section') and entry.endswith('.xml')
IsSectionPath(entry) ==
    StartsWith(entry, SECTION_PREFIX) /\ EndsWith(entry, XML_SUFFIX)

\* ElementTree._escape_cdata(text): the text of an element as written
_escape_cdata(text) ==
    Replace(Replace(Replace(text, "&", AMP), "<", LT), ">", GT)

\* the bytes of an XML file: who wrote the markup around the character data
\* (the declaration, the quotes, the empty elements: "source" for the
\* producer of the opened archive, "etree" for ElementTree.write), and the
\* character data of each element as written
XmlBytes(style, nodes) == [form |-> "xml", style |-> style, nodes |-> nodes]

\* the bytes of a file that is not XML
RawBytes(data) == [form |-> "raw", data |-> data]

WrittenNode(node) == [tag |-> node.tag, raw |-> _escape_cdata(node.text)]

\* _serialize_xml(tree): tree.write(buf, encoding='utf-8',
\* xml_declaration=True)
_serialize_xml(tree) ==
    XmlBytes("etree", [i \in 1..Len(tree) |-> WrittenNode(tree[i])])

\* the end-of-line handling of an XML parser: \r\n and a lone \r are read
\* as \n
RECURSIVE NormalizeNewlines(_)
NormalizeNewlines(s) ==
    IF s = <<>> THEN <<>>
    ELSE IF Head(s) = CR /\ Len(s) > 1 /\ s[2] = LF
    THEN <<LF>> \o NormalizeNewlines(SubSeq(s, 3, Len(s)))
    ELSE IF Head(s) = CR THEN <<LF>> \o NormalizeNewlines(Tail(s))
    ELSE <<Head(s)>> \o NormalizeNewlines(Tail(s))

ParsedNode(node) ==
    [tag |-> node.tag, text |-> XmlUnescape(NormalizeNewlines(node.raw))]

\* the character data of the file is well-formed
WellFormed(bytes) ==
    \A i \in 1..Len(bytes.nodes) :
        /\ \A j \in 1..Len(bytes.nodes[i].raw) :
              bytes.nodes[i].raw[j] \notin IllegalChars \cup {"<"}
        /\ ~Contains(XmlUnescape(bytes.nodes[i].raw), MALFORMED)

\* ET.fromstring(data.decode('utf-8')): the tree, or ParseError
fromstring(bytes) ==
    IF bytes.form = "xml" /\ WellFormed(bytes)
    THEN [tree |-> [i \in 1..Len(bytes.nodes) |-> ParsedNode(bytes.nodes[i])],
          error |-> FALSE]
    ELSE [tree |-> <<>>, error |-> TRUE]

\* the content stored under a name
ContentOf(fs, name) ==
    fs[CHOOSE i \in 1..Len(fs) : fs[i].name = name].content

Names(fs) == [i \in 1..Len(fs) |-> fs[i].name]

Range(s) == {s[i] : i \in 1..Len(s)}

IsParsed(entry) == IsSectionPath(entry) \/ entry = HEADER_PATH

\* the form from_bytes builds from the entries of zf.namelist(): the
\* sections and the header are parsed, the header and every other file are
\* kept as bytes, and _section_paths is sorted
OpenedForm(entries) ==
    [_files |-> SelectSeq([i \in 1..Len(entries) |->
                              [name |-> entries[i].name,
                               content |-> entries[i].content]],
                          LAMBDA f : ~IsSectionPath(f.name)),
     _xml_files |-> SelectSeq(Names(entries), IsParsed),
     _section_paths |-> sorted(SelectSeq(Names(entries), IsSectionPath))]

TreesOf(entries, paths) ==
    [k \in 1..Len(paths) |-> fromstring(ContentOf(entries, paths[k])).tree]

\* HwpxForm.from_bytes(data) / HwpxForm.open(path): the form, or the
\* ParseError of the first file that is not well-formed
from_bytes(entries) ==
    IF \E i \in 1..Len(entries) :
          IsParsed(entries[i].name) /\ fromstring(entries[i].content).error
    THEN [error |-> TRUE]
    ELSE [error |-> FALSE, form |-> OpenedForm(entries)]

ZipEntry(name, compress_type, content) ==
    [name |-> name, compress_type |-> compress_type, content |-> content]

\* if 'mimetype' in self._files: written first, ZIP_STORED
MimetypeEntry(fs) ==
    IF MIMETYPE_PATH \in Range(Names(fs))
    THEN << ZipEntry(MIMETYPE_PATH, "ZIP_STORED",
                     ContentOf(fs, MIMETYPE_PATH)) >>
    ELSE <<>>

\* the files that are neither mimetype nor parsed, as they were read
CopiedEntries(fs, xml) ==
    LET kept == SelectSeq(fs, LAMBDA f : /\ f.name # MIMETYPE_PATH
                                         /\ f.name \notin Range(xml))
    IN  [i \in 1..Len(kept) |->
            ZipEntry(kept[i].name, "ZIP_DEFLATED", kept[i].content)]

\* self._xml_files[xml_path]: the tree of a section, or of the header, which
\* no method changes
TreeOf(xml_path, fs, paths, secs) ==
    IF xml_path \in Range(paths)
    THEN secs[CHOOSE k \in 1..Len(paths) : paths[k] = xml_path]
    ELSE fromstring(ContentOf(fs, xml_path)).tree

\* the parsed files, each serialized from its tree
SerializedEntries(fs, xml, paths, secs) ==
    [i \in 1..Len(xml) |->
        ZipEntry(xml[i], "ZIP_DEFLATED",
                 _serialize_xml(TreeOf(xml[i], fs, paths, secs)))]

\* the archive save(path) and to_bytes() write
form_save(fs, xml, paths, secs) ==
    MimetypeEntry(fs) \o CopiedEntries(fs, xml)
        \o SerializedEntries(fs, xml, paths, secs)

----------------------------------------------------------------------------
(* Specification SpecArchive: a form opened from an archive, filled under *)
(* "keep", saved, and opened again from what was saved                    *)

\* most elements in the section files of one archive
MaxFileNodes == 2

\* the character data of the elements as the producer of the archive
\* wrote it
SourceNodes ==
    {[tag |-> HP_T, raw |-> raw] : raw \in {<<"x">>, TOKEN_A, TOKEN_B, AMP}}
    \cup {[tag |-> HP_RUN, raw |-> <<>>]}

MIMETYPE_BYTES == RawBytes("application/hwp+zip")
PRV_TEXT_BYTES == RawBytes("preview")
HEADER_BYTES == XmlBytes("source", <<>>)

\* the archive HwpxDocument writes: mimetype first, the header before the
\* sections, the preview last
StandardArchive(secs) ==
    << ZipEntry(MIMETYPE_PATH, "ZIP_STORED", MIMETYPE_BYTES),
       ZipEntry(HEADER_PATH, "ZIP_DEFLATED", HEADER_BYTES),
       ZipEntry(SECTION0_PATH, "ZIP_DEFLATED", XmlBytes("source", secs[1])),
       ZipEntry(SECTION1_PATH, "ZIP_DEFLATED", XmlBytes("source", secs[2])),
       ZipEntry(PRV_TEXT_PATH, "ZIP_DEFLATED", PRV_TEXT_BYTES) >>

\* an archive of another producer: no mimetype, the second section before
\* the first, the header last
OtherArchive(secs) ==
    << ZipEntry(PRV_TEXT_PATH, "ZIP_DEFLATED", PRV_TEXT_BYTES),
       ZipEntry(SECTION1_PATH, "ZIP_DEFLATED", XmlBytes("source", secs[2])),
       ZipEntry(SECTION0_PATH, "ZIP_DEFLATED", XmlBytes("source", secs[1])),
       ZipEntry(HEADER_PATH, "ZIP_DEFLATED", HEADER_BYTES) >>

SourceArchives ==
    UNION {{StandardArchive(SplitAt(nodes, k)), OtherArchive(SplitAt(nodes, k))}
              : k \in 0..1, nodes \in StrsUpTo(SourceNodes, MaxFileNodes) \ {<<>>}}

\* the dicts given to fill: a plain value, a value with a Windows line end,
\* one with markup characters, one with a form feed, and a list
ArchiveMaps ==
    { NAME_A :> StrValue(<<"X">>),
      NAME_A :> StrValue(<<CR, LF>>),
      NAME_A :> StrValue(<<"&", "<">>),
      NAME_A :> StrValue(<<FF>>),
      NAME_B :> ListValue(<< <<"Y">>, <<"Z">> >>) }

FormCall(op, result) ==
    [op |-> op, data |-> <<>>, missing |-> "keep", result |-> result,
     before |-> sections]

\* fill(data), the policy left at "keep"
FillKeep ==
    \E data \in ArchiveMaps :
        \E res \in {fill(sections, 1, data, "keep")} :
            /\ sections' = res.sections
            /\ formCall' = [op |-> "fill", data |-> data, missing |-> "keep",
                            result |-> "self", before |-> sections]
            /\ UNCHANGED <<escVars, pkgVars, idVars, docVars, zipVars>>

\* save(path)
FormSave ==
    /\ saved' = form_save(_files, _xml_files, _section_paths, sections)
    /\ formCall' = FormCall("save", "None")
    /\ UNCHANGED <<sections, _files, _xml_files, _section_paths>>
    /\ UNCHANGED <<escVars, pkgVars, idVars, docVars>>

\* to_bytes()
FormToBytes ==
    /\ saved' = form_save(_files, _xml_files, _section_paths, sections)
    /\ formCall' = FormCall("to_bytes", "bytes")
    /\ UNCHANGED <<sections, _files, _xml_files, _section_paths>>
    /\ UNCHANGED <<escVars, pkgVars, idVars, docVars>>

\* the form that from_bytes returned takes the place of the one in memory
Opened(form, entries) ==
    /\ _files' = form._files
    /\ _xml_files' = form._xml_files
    /\ _section_paths' = form._section_paths
    /\ sections' = TreesOf(entries, form._section_paths)

\* HwpxForm.from_bytes / HwpxForm.open of what save or to_bytes wrote
Reopen ==
    /\ formCall.op \in {"save", "to_bytes"}
    /\ \E r \in {from_bytes(saved)} :
          IF r.error
          THEN /\ formCall' = FormCall("from_bytes", "ParseError")
               /\ UNCHANGED <<sections, _files, _xml_files, _section_paths>>
          ELSE /\ formCall' = FormCall("from_bytes", "form")
               /\ Opened(r.form, saved)
    /\ UNCHANGED saved
    /\ UNCHANGED <<escVars, pkgVars, idVars, docVars>>

InitArchive ==
    /\ \E entries \in SourceArchives :
          /\ _files = OpenedForm(entries)._files
          /\ _xml_files = OpenedForm(entries)._xml_files
          /\ _section_paths = OpenedForm(entries)._section_paths
          /\ sections = TreesOf(entries, OpenedForm(entries)._section_paths)
    /\ saved = <<>>
    /\ formCall = NoFormCall
    /\ EscIdle
    /\ PkgIdle
    /\ IdIdle
    /\ DocIdle

NextArchive ==
    \/ FillKeep
    \/ FormSave
    \/ FormToBytes
    \/ Reopen

SpecArchive == InitArchive /\ [][NextArchive]_vars

----------------------------------------------------------------------------
(* Claims C12 and C13: what save and to_bytes of a form write *)

\* C12: the form opened from what save or to_bytes wrote after fills under
\* "keep" has, in every section, exactly the text elements of the form in
\* memory: the same elements with the same texts
C12_ReopenedAsInMemory ==
    formCall.op = "from_bytes" =>
        formCall.result = "form" /\ sections = formCall.before

\* C13: in what save or to_bytes wrote, every file that no fill can have
\* changed (the header and the files that are not parsed) has exactly the
\* bytes it had when the archive was opened, and mimetype is the first
\* entry and stored
C13_UnchangedFilesVerbatim ==
    formCall.op \in {"save", "to_bytes"} =>
        /\ \A i \in 1..Len(_files) :
              ContentOf(saved, _files[i].name) = _files[i].content
        /\ MIMETYPE_PATH \in Range(Names(_files)) =>
              /\ saved[1].name = MIMETYPE_PATH
              /\ saved[1].compress_type = "ZIP_STORED"

----------------------------------------------------------------------------
(* Tables of a form (form.py): get_table_text and fill_table_cell *)

\* A section tree with tables is the sequence of its elements in document
\* order, each with its depth below the root.  The elements between a cell
\* and its runs (hp:subList, hp:p) carry no text and no method looks at
\* them: they are left out.
HP_TBL == [ns |-> "hp", local |-> "tbl"]
HP_TR == [ns |-> "hp", local |-> "tr"]
HP_TC == [ns |-> "hp", local |-> "tc"]

Element(tag, text, depth) == [tag |-> tag, text |-> text, depth |-> depth]

Indices(n) == [i \in 1..n |-> i]

\* the index of the last element of the subtree of the element at i
SubtreeEnd(nodes, i) ==
    IF \E k \in (i + 1)..Len(nodes) : nodes[k].depth <= nodes[i].depth
    THEN (CHOOSE k \in (i + 1)..Len(nodes) :
             /\ nodes[k].depth <= nodes[i].depth
             /\ \A j \in (i + 1)..(k - 1) : nodes[j].depth > nodes[i].depth) - 1
    ELSE Len(nodes)

\* elem.iter(): the element at i and its descendants, in document order
iter(nodes, i) ==
    SelectSeq(Indices(Len(nodes)),
              LAMBDA j : i <= j /\ j <= SubtreeEnd(nodes, i))

\* elem.findall('{ns}tag'): the children of the element at i with the tag
findall(nodes, i, tag) ==
    SelectSeq(iter(nodes, i),
              LAMBDA j : nodes[j].tag = tag
                         /\ nodes[j].depth = nodes[i].depth + 1)

\* root.findall('.//{ns}tbl'): every table below the root, nested ones too
findall_tbl(nodes) ==
    SelectSeq(Indices(Len(nodes)), LAMBDA j : nodes[j].tag = HP_TBL)

\* the position in a list of n items that the Python index i addresses
PyPos(n, i) == IF i >= 0 THEN i + 1 ELSE n + i + 1

\* lst[i] raises IndexError
PyIndexError(n, i) == i >= n \/ i < -n

\* ''.join of the texts of the hp:t elements of tc.iter() that have text
RECURSIVE JoinTexts(_, _)
JoinTexts(nodes, js) ==
    IF js = <<>> THEN <<>>
    ELSE (IF nodes[Head(js)].tag = HP_T THEN nodes[Head(js)].text ELSE <<>>)
         \o JoinTexts(nodes, Tail(js))

CellText(nodes, tc) == JoinTexts(nodes, iter(nodes, tc))

RowText(nodes, tr) ==
    [c \in 1..Len(findall(nodes, tr, HP_TC)) |->
        CellText(nodes, findall(nodes, tr, HP_TC)[c])]

TableText(nodes, tbl) ==
    [r \in 1..Len(findall(nodes, tbl, HP_TR)) |->
        RowText(nodes, findall(nodes, tbl, HP_TR)[r])]

Rows(rows) == [rows |-> rows, error |-> "None"]

RaisedIndexError == [rows |-> <<>>, error |-> "IndexError"]

\* tables[table_index] of get_table_text
TablesText(nodes, tables, table_index) ==
    IF table_index >= Len(tables) THEN Rows(<<>>)
    ELSE IF PyIndexError(Len(tables), table_index) THEN RaisedIndexError
    ELSE Rows(TableText(nodes, tables[PyPos(Len(tables), table_index)]))

\* get_table_text(table_index, section_index)
get_table_text(secs, table_index, section_index) ==
    IF section_index >= Len(secs) THEN Rows(<<>>)
    ELSE IF PyIndexError(Len(secs), section_index) THEN RaisedIndexError
    ELSE TablesText(secs[PyPos(Len(secs), section_index)],
                    findall_tbl(secs[PyPos(Len(secs), section_index)]),
                    table_index)

\* the first element of tc.iter() with the tag, 0 when there is none
FirstWithTag(nodes, tc, tag) ==
    IF \E j \in tc..SubtreeEnd(nodes, tc) : nodes[j].tag = tag
    THEN CHOOSE j \in tc..SubtreeEnd(nodes, tc) :
            /\ nodes[j].tag = tag
            /\ \A h \in tc..(j - 1) : nodes[h].tag # tag
    ELSE 0

\* ET.SubElement(run, hp:t) with the text: a last child of the run
SubElement(nodes, run, text) ==
    SubSeq(nodes, 1, SubtreeEnd(nodes, run))
        \o << Element(HP_T, text, nodes[run].depth + 1) >>
        \o SubSeq(nodes, SubtreeEnd(nodes, run) + 1, Len(nodes))

\* the end of fill_table_cell: the first hp:t of the cell takes the text;
\* without one the first hp:run gets a new hp:t; without a run nothing is
\* written
CellFilled(nodes, tc, text) ==
    IF FirstWithTag(nodes, tc, HP_T) # 0
    THEN [nodes EXCEPT ![FirstWithTag(nodes, tc, HP_T)].text = text]
    ELSE IF FirstWithTag(nodes, tc, HP_RUN) # 0
    THEN SubElement(nodes, FirstWithTag(nodes, tc, HP_RUN), text)
    ELSE nodes

Returned(nodes) == [nodes |-> nodes, error |-> "None"]
Raised(nodes) == [nodes |-> nodes, error |-> "IndexError"]

\* tcs[col]
InCells(nodes, tcs, col, text) ==
    IF PyIndexError(Len(tcs), col) THEN Raised(nodes)
    ELSE Returned(CellFilled(nodes, tcs[PyPos(Len(tcs), col)], text))

\* trs[row]
InRows(nodes, trs, row, col, text) ==
    IF PyIndexError(Len(trs), row) THEN Raised(nodes)
    ELSE InCells(nodes, findall(nodes, trs[PyPos(Len(trs), row)], HP_TC),
                 col, text)

\* tables[table_index]
InTables(nodes, tables, table_index, row, col, text) ==
    IF PyIndexError(Len(tables), table_index) THEN Raised(nodes)
    ELSE InRows(nodes,
                findall(nodes, tables[PyPos(Len(tables), table_index)], HP_TR),
                row, col, text)

\* the section at position k put back after the call on it
SectionFilled(secs, k, res) ==
    [sections |-> [secs EXCEPT ![k] = res.nodes], error |-> res.error]

\* fill_table_cell(table_index, row, col, text, section_index): the
\* sections after the call, and IndexError when it raised; an index from
\* -len to -1 is taken by the list from its end
fill_table_cell(secs, table_index, row, col, text, section_index) ==
    IF PyIndexError(Len(secs), section_index)
    THEN [sections |-> secs, error |-> "IndexError"]
    ELSE SectionFilled(secs, PyPos(Len(secs), section_index),
             InTables(secs[PyPos(Len(secs), section_index)],
                      findall_tbl(secs[PyPos(Len(secs), section_index)]),
                      table_index, row, col, text))

----------------------------------------------------------------------------
(* Specification SpecTable: a form with tables, its cells filled by *)
(* position                                                         *)

\* most rows of a table of the form
MaxRows == 2

RECURSIVE Concat(_)
Concat(seqs) == IF seqs = <<>> THEN <<>> ELSE Head(seqs) \o Concat(Tail(seqs))

\* what a cell holds, below the hp:tc at depth d: one run with one text,
\* two runs with a text each, a run without text, nothing, or a run with a
\* nested table of one cell
CellContent(shape, d) ==
    CASE shape = "one" ->
            << Element(HP_RUN, <<>>, d + 1), Element(HP_T, <<"a">>, d + 2) >>
      [] shape = "two" ->
            << Element(HP_RUN, <<>>, d + 1), Element(HP_T, <<"p">>, d + 2),
               Element(HP_RUN, <<>>, d + 1), Element(HP_T, <<"q">>, d + 2) >>
      [] shape = "run" -> << Element(HP_RUN, <<>>, d + 1) >>
      [] shape = "empty" -> <<>>
      [] shape = "nested" ->
            << Element(HP_RUN, <<>>, d + 1), Element(HP_TBL, <<>>, d + 2),
               Element(HP_TR, <<>>, d + 3), Element(HP_TC, <<>>, d + 4),
               Element(HP_RUN, <<>>, d + 5), Element(HP_T, <<"n">>, d + 6) >>

CellAt(shape, d) == << Element(HP_TC, <<>>, d) >> \o CellContent(shape, d)

RowAt(shapes, d) ==
    << Element(HP_TR, <<>>, d) >>
        \o Concat([c \in 1..Len(shapes) |-> CellAt(shapes[c], d + 1)])

\* a table directly below the root: rows of cells
TableAt(rows, d) ==
    << Element(HP_TBL, <<>>, d) >>
        \o Concat([r \in 1..Len(rows) |-> RowAt(rows[r], d + 1)])

\* the rows the tables of the model are made of
TableRows == { <<"one", "two">>, <<"empty", "run">>, <<"nested">> }

TableSections ==
    {TableAt(rows, 1) : rows \in StrsUpTo(TableRows, MaxRows) \ {<<>>}}

\* the forms: one section with a table, or two
TableDocs ==
    {<< sec >> : sec \in TableSections}
    \cup {<< sec, TableAt(<< <<"one">> >>, 1) >> : sec \in TableSections}

\* the indexes given: in range, negative, and beyond either end
Indexes == -2..1

CellArgs(table_index, row, col, text, section_index) ==
    [table_index |-> table_index, row |-> row, col |-> col, text |-> text,
     section_index |-> section_index]

\* fill_table_cell(table_index, row, col, text, section_index), called once
\* on the form as it was opened
FillTableCell ==
    /\ formCall.op = "open"
    /\ \E table_index \in Indexes, row \in Indexes, col \in Indexes,
          section_index \in Indexes, text \in {<<"Z">>, <<>>} :
         \E res \in {fill_table_cell(sections, table_index, row, col, text,
                                     section_index)} :
             /\ sections' = res.sections
             /\ formCall' = [op |-> "fill_table_cell",
                             data |-> CellArgs(table_index, row, col, text,
                                               section_index),
                             missing |-> "keep",
                             result |-> IF res.error = "IndexError"
                                        THEN "IndexError" ELSE "self",
                             before |-> sections]
             /\ UNCHANGED <<escVars, pkgVars, idVars, docVars, zipVars>>

InitTable ==
    /\ sections \in TableDocs
    /\ formCall = NoFormCall
    /\ _files = <<>>
    /\ _xml_files = SubSeq(TwoSections, 1, Len(sections))
    /\ _section_paths = SubSeq(TwoSections, 1, Len(sections))
    /\ saved = <<>>
    /\ EscIdle
    /\ PkgIdle
    /\ IdIdle
    /\ DocIdle

NextTable ==
    \/ FillTableCell

SpecTable == InitTable /\ [][NextTable]_vars

----------------------------------------------------------------------------
(* Claims C14 and C15: fill_table_cell *)

\* the call of fill_table_cell returned without error
CellFillReturned ==
    formCall.op = "fill_table_cell" /\ formCall.result = "self"

\* the cell at row r and column c of the table is the one the call filled
IsTarget(secs, k, t, r, c) ==
    /\ k = PyPos(Len(secs), formCall.data.section_index)
    /\ t = PyPos(Len(findall_tbl(secs[k])), formCall.data.table_index)
    /\ r = PyPos(Len(TableText(secs[k], findall_tbl(secs[k])[t])),
                 formCall.data.row)
    /\ c = PyPos(Len(TableText(secs[k], findall_tbl(secs[k])[t])[r]),
                 formCall.data.col)

\* C14: after fill_table_cell(table_index, row, col, text) has returned
\* without error, get_table_text reads exactly text from the cell at
\* [row][col] of that table, and the text of every other cell of every
\* table is what it was before the call
C14_CellReadsBackText ==
    CellFillReturned =>
        \A k \in 1..Len(formCall.before) :
          \A t \in 1..Len(findall_tbl(formCall.before[k])) :
            \A r \in 1..Len(TableText(formCall.before[k],
                                      findall_tbl(formCall.before[k])[t])) :
              \A c \in 1..Len(TableText(formCall.before[k],
                                  findall_tbl(formCall.before[k])[t])[r]) :
                get_table_text(sections, t - 1, k - 1).rows[r][c] =
                    IF IsTarget(formCall.before, k, t, r, c)
                    THEN formCall.data.text
                    ELSE get_table_text(formCall.before, t - 1, k - 1).rows[r][c]

\* the index lies in 0..count-1
InCount(n, i) == 0 <= i /\ i < n

\* every index of the call addresses, counted from 0, an element that the
\* form had: the section, the table in it, the row in it, the cell in it
IndexesInCount(secs, a) ==
    /\ InCount(Len(secs), a.section_index)
    /\ InCount(Len(findall_tbl(secs[a.section_index + 1])), a.table_index)
    /\ InCount(Len(get_table_text(secs, a.table_index, a.section_index).rows),
               a.row)
    /\ InCount(Len(get_table_text(secs, a.table_index, a.section_index)
                       .rows[a.row + 1]),
               a.col)

\* C15: whenever the section, table, row or column index of a call of
\* fill_table_cell is not in 0..count-1, the call raises IndexError and the
\* document is as it was before the call
C15_IndexErrorOutsideCount ==
    (formCall.op = "fill_table_cell"
        /\ ~IndexesInCount(formCall.before, formCall.data)) =>
            /\ formCall.result = "IndexError"
            /\ sections = formCall.before

----------------------------------------------------------------------------
(* Claim C16: the property placeholders *)

\* the text element at i of section k holds a token with the name
HoldsToken(secs, k, i, name) ==
    /\ IsT(secs[k][i].tag)
    /\ \E n \in 1..Len(finditer(secs[k][i].text, 1)) :
          SubSeq(secs[k][i].text, finditer(secs[k][i].text, 1)[n].start + 2,
                 finditer(secs[k][i].text, 1)[n].stop - 2) = name

----------------------------------------------------------------------------
(* Claim C17: where the section properties are written *)

\* no run of the written paragraph carries secPr
WithoutSecPr(p) == \A i \in 1..Len(p.runs) : ~p.runs[i].secPr

\* no paragraph of any cell of the written table carries secPr
TableWithoutSecPr(tbl) ==
    \A ri \in 1..Len(tbl.rows) : \A ci \in 1..Len(tbl.rows[ri]) :
        \A k \in 1..Len(tbl.rows[ri][ci].subList.paragraphs) :
            WithoutSecPr(tbl.rows[ri][ci].subList.paragraphs[k])

\* save or to_bytes has written the section
SectionWritten == Serialized /\ docCall.result \in {"None", "bytes"}

\* C17: in the section written for any document, secPr is in the first run
\* of the first paragraph and nowhere else: in no other run of it, in no
\* later paragraph and in no paragraph of a table cell; when the first
\* element of the document is a table or an image, the first paragraph is
\* an empty one written ahead of it
C17_SecPrOnceInFirstRun ==
    SectionWritten =>
        /\ docCall.section # <<>>
        /\ docCall.section[1].tag = "hp:p"
        /\ docCall.section[1].runs # <<>>
        /\ docCall.section[1].runs[1].secPr
        /\ \A i \in 2..Len(docCall.section[1].runs) :
              ~docCall.section[1].runs[i].secPr
        /\ \A n \in 2..Len(docCall.section) :
              /\ docCall.section[n].tag = "hp:p"
                    => WithoutSecPr(docCall.section[n])
              /\ docCall.section[n].tag = "hp:tbl"
                    => TableWithoutSecPr(docCall.section[n])
        /\ _elements[1].kind \in {"table", "image"} =>
              /\ docCall.section[1] = write_paragraph(EmptyPara, TRUE)
              /\ docCall.section[2].tag \in {"hp:tbl", "hp:pic"}
              /\ Len(docCall.section) = Len(_elements) + 1

\* to_bytes has written a document that starts with a table with cells and
\* goes on with a paragraph that has a run
C17_Witness ==
    /\ docCall.op = "to_bytes"
    /\ SectionWritten
    /\ Len(_elements) = 2
    /\ _elements[1].kind = "table"
    /\ _elements[2].kind = "paragraph"
    /\ _elements[2].para.runs # <<>>
    /\ Len(docCall.section) = 3
    /\ docCall.section[2].rows # <<>>
    /\ docCall.section[2].rows[1] # <<>>

----------------------------------------------------------------------------
(* Claim C18: what save and to_bytes leave alone *)

\* C18: a step of save() or to_bytes() leaves the element sequence, the
\* image list and the image counter of the document as they were, for
\* every document, the empty one included
C18_SaveLeavesDocument ==
    [][docCall'.op \in {"save", "to_bytes"}
          => UNCHANGED <<_elements, _images, _image_counter>>]_vars

----------------------------------------------------------------------------
(* The remaining builder operations (document.py) *)

\* a formatted segment: seg.get(key) of an absent key is falsy
Segment(text, bold, italic, code) ==
    [text |-> text, bold |-> bold, italic |-> italic, code |-> code,
     strikethrough |-> FALSE, superscript |-> FALSE, subscript |-> FALSE]

\* the segment with one more key set
WithKey(seg, key) == [seg EXCEPT ![key] = TRUE]

\* runs chosen with bold tested ahead of bold with italic
MixedRunsBoldFirst(segments) ==
    [i \in 1..Len(segments) |->
        Run(segments[i].text,
            IF segments[i].code THEN CHARPR_INLINE_CODE
            ELSE IF segments[i].bold THEN CHARPR_BOLD
            ELSE IF segments[i].italic THEN CHARPR_ITALIC
            ELSE CHARPR_BODY)]

\* the runs add_mixed_paragraph makes of its segments
MixedRuns(segments) ==
    [i \in 1..Len(segments) |->
        Run(segments[i].text,
            IF segments[i].code THEN CHARPR_INLINE_CODE
            ELSE IF segments[i].bold /\ segments[i].italic
            THEN CHARPR_BOLD_ITALIC
            ELSE IF segments[i].bold THEN CHARPR_BOLD
            ELSE IF segments[i].italic THEN CHARPR_ITALIC
            ELSE CHARPR_BODY)]

\* the elements a builder appends, the call it records
Appended(op, args, result, paras) ==
    /\ _elements' = _elements
            \o [i \in 1..Len(paras) |->
                    [kind |-> "paragraph", para |-> paras[i]]]
    /\ docCall' = [NoDocCall EXCEPT !.op = op, !.args = args,
                                    !.result = result]
    /\ UNCHANGED <<_images, _image_counter, _seed>>

\* add_mixed_paragraph(segments)
add_mixed_paragraph(segments) ==
    Appended("add_mixed_paragraph", segments, "Paragraph",
             << Paragraph(MixedRuns(segments), PARAPR_BODY, 0) >>)

\* the paragraphs of a code block: one for each line, an empty line as a
\* space
CodeParagraphs(lines) ==
    [i \in 1..Len(lines) |->
        Paragraph(<< Run(IF lines[i] # <<>> THEN lines[i] ELSE <<" ">>,
                         CHARPR_CODE_BLOCK) >>,
                  PARAPR_CODE, 0)]

\* add_code_block(code)
add_code_block(code) ==
    Appended("add_code_block", code, "list", CodeParagraphs(Split(code, LF)))

_BULLET_LEVEL_MAP == <<PARAPR_BULLET, PARAPR_BULLET_L2, PARAPR_BULLET_L3>>
_ORDERED_LEVEL_MAP == <<PARAPR_ORDERED, PARAPR_ORDERED_L2, PARAPR_ORDERED_L3>>

\* a list item: a string or a list of segments, alone or in a tuple with
\* a nesting level
StrItem(text) ==
    [tuple |-> FALSE, str |-> TRUE, text |-> text, segments |-> <<>>,
     level |-> 0]

SegmentsItem(segments) ==
    [tuple |-> FALSE, str |-> FALSE, text |-> <<>>, segments |-> segments,
     level |-> 0]

TupleItem(item, level) == [item EXCEPT !.tuple = TRUE, !.level = level]

\* the level of an item: 0 unless the item is a tuple, then within 0..2
LevelOf(item) == IF item.tuple THEN Min(Max(item.level, 0), 2) ELSE 0

\* the runs a list item makes of its segments
ListRuns(segments) ==
    [i \in 1..Len(segments) |->
        Run(segments[i].text,
            IF segments[i].code THEN CHARPR_INLINE_CODE
            ELSE IF segments[i].bold THEN CHARPR_BOLD
            ELSE IF segments[i].italic THEN CHARPR_ITALIC
            ELSE CHARPR_BODY)]

\* the paragraphs of a list: one for each item, with the paraPr of its level
ListParagraphs(items, level_map) ==
    [i \in 1..Len(items) |->
        Paragraph(IF items[i].str
                  THEN << Run(items[i].text, CHARPR_BODY) >>
                  ELSE ListRuns(items[i].segments),
                  level_map[LevelOf(items[i]) + 1], 0)]

\* add_bullet_list(items)
add_bullet_list(items) ==
    Appended("add_bullet_list", items, "list",
             ListParagraphs(items, _BULLET_LEVEL_MAP))

\* add_ordered_list(items)
add_ordered_list(items) ==
    Appended("add_ordered_list", items, "list",
             ListParagraphs(items, _ORDERED_LEVEL_MAP))

PARAPR_HR == 15

\* a rule drawn with the paraPr of the ID map
HorizontalRuleHr == Paragraph(<< Run(<<>>, CHARPR_BODY) >>, PARAPR_HR, 0)

\* the paragraph add_horizontal_rule builds
HorizontalRule == Paragraph(<< Run(<<>>, CHARPR_BODY) >>, PARAPR_BODY, 0)

\* add_horizontal_rule()
add_horizontal_rule ==
    Appended("add_horizontal_rule", <<>>, "Paragraph", << HorizontalRule >>)

----------------------------------------------------------------------------
(* Specification SpecBuild: one new document and the builder calls made on
   it *)

\* most elements of the document built
MaxBuilt == 3

PLAIN == Segment(<<"a">>, FALSE, FALSE, FALSE)
BOLD == Segment(<<"a">>, TRUE, FALSE, FALSE)
ITALIC == Segment(<<>>, FALSE, TRUE, FALSE)
BOLD_ITALIC == Segment(<<"a">>, TRUE, TRUE, FALSE)
CODE == Segment(<<"a">>, TRUE, TRUE, TRUE)

\* the segments given to add_mixed_paragraph and to a list item
SegmentLists == {<<>>, <<PLAIN, CODE>>, <<BOLD_ITALIC, ITALIC, BOLD>>}

\* the code given to add_code_block: nothing, two lines, an empty line and
\* a line
Codes == {<<>>, <<"a", LF, "b">>, <<LF, "a">>}

\* the levels given with a list item: below the range, inside it, above it
Levels == {-1, 1, 3}

\* the items given to the list builders
ListItems ==
    {StrItem(<<"a">>), SegmentsItem(<<BOLD_ITALIC, CODE>>)}
    \cup {TupleItem(StrItem(<<"a">>), level) : level \in Levels}
    \cup {TupleItem(SegmentsItem(<<ITALIC>>), 3)}

\* the lists given to the list builders: none, one or two items
ItemLists ==
    {<<>>} \cup {<<item>> : item \in ListItems}
    \cup {<<StrItem(<<"a">>), TupleItem(SegmentsItem(<<ITALIC>>), 2)>>}

BuildHeading ==
    /\ Len(_elements) < MaxBuilt
    /\ \E level \in {0, 3, 7} : add_heading(<<"a">>, level)
    /\ UNCHANGED <<mdVars, regVars, escVars, pkgVars, idVars, formVars, sizeVars>>

BuildParagraph ==
    /\ Len(_elements) < MaxBuilt
    /\ \E text \in Texts, bold \in BOOLEAN, italic \in BOOLEAN :
            add_paragraph(text, bold, italic)
    /\ UNCHANGED <<mdVars, regVars, escVars, pkgVars, idVars, formVars, sizeVars>>

BuildMixedParagraph ==
    /\ Len(_elements) < MaxBuilt
    /\ \E segments \in SegmentLists : add_mixed_paragraph(segments)
    /\ UNCHANGED <<mdVars, regVars, escVars, pkgVars, idVars, formVars, sizeVars>>

\* the tables given to add_table here: those of TableInputs, and two
\* headers over a row of one cell and a row of three
BuildTableInputs ==
    TableInputs
    \cup { [headers |-> << <<"a">>, <<"b">> >>,
            rows |-> << << <<"b">> >>, << <<"a">>, <<"b">>, <<"a">> >> >>] }

BuildTable ==
    /\ Len(_elements) < MaxBuilt
    /\ \E input \in BuildTableInputs : add_table(input.headers, input.rows)
    /\ UNCHANGED <<mdVars, regVars, escVars, pkgVars, idVars, formVars, sizeVars>>

BuildCodeBlock ==
    /\ \E code \in Codes :
        /\ Len(_elements) + Len(Split(code, LF)) <= MaxBuilt
        /\ add_code_block(code)
    /\ UNCHANGED <<mdVars, regVars, escVars, pkgVars, idVars, formVars, sizeVars>>

BuildBulletList ==
    /\ \E items \in ItemLists :
        /\ Len(_elements) + Len(items) <= MaxBuilt
        /\ add_bullet_list(items)
    /\ UNCHANGED <<mdVars, regVars, escVars, pkgVars, idVars, formVars, sizeVars>>

BuildOrderedList ==
    /\ \E items \in ItemLists :
        /\ Len(_elements) + Len(items) <= MaxBuilt
        /\ add_ordered_list(items)
    /\ UNCHANGED <<mdVars, regVars, escVars, pkgVars, idVars, formVars, sizeVars>>

BuildHorizontalRule ==
    /\ Len(_elements) < MaxBuilt
    /\ add_horizontal_rule
    /\ UNCHANGED <<mdVars, regVars, escVars, pkgVars, idVars, formVars, sizeVars>>

BuildImage ==
    /\ Len(_elements) < MaxBuilt
    /\ \E input \in ImageInputs, read \in FileReads :
            add_image(input.image_path, input.image_data, 7500, 7500, read)
    /\ UNCHANGED <<mdVars, regVars, escVars, pkgVars, idVars, formVars, sizeVars>>

InitBuild ==
    /\ DocIdle
    /\ FormIdle
    /\ EscIdle
    /\ PkgIdle
    /\ IdIdle

NextBuild ==
    \/ BuildHeading
    \/ BuildParagraph
    \/ BuildMixedParagraph
    \/ BuildTable
    \/ BuildCodeBlock
    \/ BuildBulletList
    \/ BuildOrderedList
    \/ BuildHorizontalRule
    \/ BuildImage

SpecBuild == InitBuild /\ [][NextBuild]_vars

\* the IDs of the entries of a registry table
Ids(table) == {table[i].id : i \in 1..Len(table)}

\* the IDs a paragraph and its runs reference are registered
ParagraphRegistered(para) ==
    /\ para.para_pr_id_ref \in Ids(_para_prs)
    /\ para.style_id_ref \in Ids(_styles)
    /\ \A i \in 1..Len(para.runs) :
            para.runs[i].char_pr_id_ref \in Ids(_char_prs)

\* the IDs a cell and its paragraphs reference are registered
CellRegistered(cell) ==
    /\ cell.border_fill_id_ref \in Ids(_border_fills)
    /\ \A i \in 1..Len(cell.paragraphs) :
            ParagraphRegistered(cell.paragraphs[i])

\* the IDs a table and its cells reference are registered
TableRegistered(table) ==
    /\ table.border_fill_id_ref \in Ids(_border_fills)
    /\ \A ri \in 1..Len(table.rows) :
            \A ci \in 1..Len(table.rows[ri].cells) :
                CellRegistered(table.rows[ri].cells[ci])

\* the IDs an element of the document references are registered
ElementRegistered(el) ==
    CASE el.kind = "paragraph" -> ParagraphRegistered(el.para)
      [] el.kind = "table" ->
            /\ el.para_pr_id_ref \in Ids(_para_prs)
            /\ el.style_id_ref \in Ids(_styles)
            /\ TableRegistered(el.table)
      [] el.kind = "image" ->
            /\ el.para_pr_id_ref \in Ids(_para_prs)
            /\ el.style_id_ref \in Ids(_styles)

\* C19: after any sequence of the builder calls, every CharPr, ParaPr, Style
\* and BorderFill ID referenced by a paragraph, run, table or cell of the
\* document, and every BorderFill ID referenced by a CharPr or ParaPr of
\* the registry, is the ID of an entry of the registry
C19_ReferencedIdsRegistered ==
    /\ \A i \in 1..Len(_elements) : ElementRegistered(_elements[i])
    /\ \A i \in 1..Len(_char_prs) :
            _char_prs[i].border_fill_id_ref \in Ids(_border_fills)
    /\ \A i \in 1..Len(_para_prs) :
            _para_prs[i].border_fill_id_ref \in Ids(_border_fills)

\* a document of a table with a padded row, an ordered item of the deepest
\* level with an inline code run, and a rule
C19_Witness ==
    /\ Len(_elements) = 3
    /\ _elements[1].kind = "table"
    /\ Len(_elements[1].table.rows) = 2
    /\ _elements[2].kind = "paragraph"
    /\ _elements[2].para.para_pr_id_ref = PARAPR_ORDERED_L3
    /\ _elements[3] = [kind |-> "paragraph", para |-> HorizontalRule]
    /\ docCall.op = "add_horizontal_rule"

\* the CharPr IDs of the ID map
BuiltinCharPrIds == CHARPR_BODY..CHARPR_SUBSCRIPT

\* C20: the registry of a newly constructed document holds a CharPr entry
\* for each built-in CharPr ID, 0 to 17: body, bold, italic, bold-italic,
\* headings 1 to 6, inline code, code block, table header, table body,
\* link, strikethrough, superscript and subscript
C20_BuiltinCharPrsPresent ==
    docCall.op = "new" => \A id \in BuiltinCharPrIds : id \in Ids(_char_prs)

----------------------------------------------------------------------------
(* Specification SpecTemplate: the border fill table built from a style
   configuration (template.py) *)

\* number of colours a configuration draws from
MaxColors == 5

ColorNames ==
    << COLOR_TABLE_HEADER_BG, COLOR_CODE_BLOCK_BG, COLOR_CODE_BG,
       "#000000", "none", "", "#FFFFFF", "red" >>

Colors == {ColorNames[i] : i \in 1..Min(MaxColors, Len(ColorNames))}

\* the configurations given: none, or one with any colours
Configs ==
    {NoConfig}
    \cup [color_code_bg : Colors, color_code_block_bg : Colors,
          color_table_header_bg : Colors]

\* default_border_fills(config), kept as the table of a registry
DefaultBorderFills ==
    /\ \E config \in Configs : _border_fills' = default_border_fills(config)
    /\ UNCHANGED <<_char_prs, _para_prs, _styles>>
    /\ UNCHANGED <<_elements, _images, _image_counter, _seed, docCall, ast>>
    /\ UNCHANGED <<escVars, pkgVars, idVars, formVars, sizeVars>>

InitTemplate ==
    /\ DocIdle
    /\ FormIdle
    /\ EscIdle
    /\ PkgIdle
    /\ IdIdle

NextTemplate == DefaultBorderFills

SpecTemplate == InitTemplate /\ [][NextTemplate]_vars

\* number of built-in border fills
BUILTIN_BORDER_FILLS == 6

----------------------------------------------------------------------------
(* The shape of what the builders append *)

\* the element the last call appended
LastElement == _elements[Len(_elements)]

\* the text of the one run of the one paragraph of a cell
TextOfCell(cell) == cell.paragraphs[1].runs[1].text

\* the header row of a table made from these headers
IsHeaderRow(row, headers) ==
    /\ Len(row.cells) = Len(headers)
    /\ \A ci \in 1..Len(row.cells) :
        /\ row.cells[ci].header = 1
        /\ row.cells[ci].border_fill_id_ref = BORDERFILL_TABLE_HEADER
        /\ TextOfCell(row.cells[ci]) = headers[ci]

\* the data row of a table made from this row, under col_cnt headers
IsDataRow(row, given, col_cnt) ==
    /\ Len(row.cells) = Max(Len(given), col_cnt)
    /\ \A ci \in 1..Len(row.cells) :
            TextOfCell(row.cells[ci])
                = IF ci <= Len(given) THEN given[ci] ELSE <<>>

\* every cell is addressed by its place in the table
AddressedByPlace(table) ==
    \A ri \in 1..Len(table.rows) :
        \A ci \in 1..Len(table.rows[ri].cells) :
            /\ table.rows[ri].cells[ci].col_addr = ci - 1
            /\ table.rows[ri].cells[ci].row_addr = ri - 1

\* C22: add_table with a non-empty header list appends a table declaring
\* col_cnt = len(headers) and row_cnt = 1 + len(rows), with row_cnt rows:
\* a header row of len(headers) cells with header = 1 and the header fill,
\* then for each row max(len(row), len(headers)) cells, a shorter row
\* padded on the right with empty cells and a longer row keeping all its
\* cells; every cell's col_addr and row_addr are its position
C22_TableShape ==
    docCall.op = "add_table" /\ docCall.args.headers # <<>> =>
        /\ docCall.result = "Table"
        /\ LastElement.kind = "table"
        /\ LastElement.table.col_cnt = Len(docCall.args.headers)
        /\ LastElement.table.row_cnt = 1 + Len(docCall.args.rows)
        /\ Len(LastElement.table.rows) = LastElement.table.row_cnt
        /\ IsHeaderRow(LastElement.table.rows[1], docCall.args.headers)
        /\ \A ri \in 1..Len(docCall.args.rows) :
                IsDataRow(LastElement.table.rows[ri + 1],
                          docCall.args.rows[ri],
                          Len(docCall.args.headers))
        /\ AddressedByPlace(LastElement.table)

\* a table of two headers over a row of one cell and a row of three
C22_Witness ==
    /\ docCall.op = "add_table"
    /\ Len(docCall.args.headers) = 2
    /\ Len(docCall.args.rows) = 2
    /\ Len(LastElement.table.rows[2].cells) = 2
    /\ TextOfCell(LastElement.table.rows[2].cells[2]) = <<>>
    /\ Len(LastElement.table.rows[3].cells) = 3

----------------------------------------------------------------------------
(* Specification SpecRuns: one builder call on a new document, given
   formatted segments *)

\* most segments given in one call
MaxSegs == 2

\* the keys of a segment that add_mixed_paragraph does not read
Modifiers == {"strikethrough", "superscript", "subscript"}

\* segments of every combination of code, bold and italic, one without
\* text, and segments with a modifier beside bold and italic
GivenSegments ==
    {Segment(<<"a">>, bold, italic, code) :
        bold \in BOOLEAN, italic \in BOOLEAN, code \in BOOLEAN}
    \cup {Segment(<<>>, FALSE, FALSE, FALSE)}
    \cup {WithKey(Segment(<<"b">>, flags[1], flags[2], FALSE), key) :
            flags \in BOOLEAN \X BOOLEAN, key \in Modifiers}

RECURSIVE SeqsUpTo(_, _)
SeqsUpTo(S, n) ==
    IF n = 0 THEN {<<>>}
    ELSE SeqsUpTo(S, n - 1)
         \cup {Append(q, x) : q \in SeqsUpTo(S, n - 1), x \in S}

GivenSegmentLists == SeqsUpTo(GivenSegments, MaxSegs)

\* a list of one item holding the segments, alone or with a level
GivenItemLists ==
    {<<SegmentsItem(segments)>> : segments \in GivenSegmentLists}
    \cup {<<TupleItem(SegmentsItem(segments), 1), StrItem(<<"a">>)>> :
            segments \in SeqsUpTo(GivenSegments, 1)}

PlainParagraph ==
    /\ docCall.op = "new"
    /\ \E text \in Texts, bold \in BOOLEAN, italic \in BOOLEAN :
            add_paragraph(text, bold, italic)
    /\ UNCHANGED <<mdVars, regVars, escVars, pkgVars, idVars, formVars, sizeVars>>

MixedParagraph ==
    /\ docCall.op = "new"
    /\ \E segments \in GivenSegmentLists : add_mixed_paragraph(segments)
    /\ UNCHANGED <<mdVars, regVars, escVars, pkgVars, idVars, formVars, sizeVars>>

SegmentsBulletList ==
    /\ docCall.op = "new"
    /\ \E items \in GivenItemLists : add_bullet_list(items)
    /\ UNCHANGED <<mdVars, regVars, escVars, pkgVars, idVars, formVars, sizeVars>>

SegmentsOrderedList ==
    /\ docCall.op = "new"
    /\ \E items \in GivenItemLists : add_ordered_list(items)
    /\ UNCHANGED <<mdVars, regVars, escVars, pkgVars, idVars, formVars, sizeVars>>

InitRuns ==
    /\ DocIdle
    /\ FormIdle
    /\ EscIdle
    /\ PkgIdle
    /\ IdIdle

NextRuns ==
    \/ PlainParagraph
    \/ MixedParagraph
    \/ SegmentsBulletList
    \/ SegmentsOrderedList

SpecRuns == InitRuns /\ [][NextRuns]_vars

\* the CharPr of the precedence code > bold+italic > bold > italic > plain
ByPrecedence(code, bold, italic) ==
    CASE code -> CHARPR_INLINE_CODE
      [] ~code /\ bold /\ italic -> CHARPR_BOLD_ITALIC
      [] ~code /\ bold /\ ~italic -> CHARPR_BOLD
      [] ~code /\ ~bold /\ italic -> CHARPR_ITALIC
      [] OTHER -> CHARPR_BODY

DedicatedCharPr(key) ==
    CASE key = "strikethrough" -> CHARPR_STRIKETHROUGH
      [] key = "superscript" -> CHARPR_SUPERSCRIPT
      [] key = "subscript" -> CHARPR_SUBSCRIPT

\* C24: in add_mixed_paragraph a segment flagged strikethrough, superscript
\* or subscript gets its dedicated CharPr ID (15, 16, 17), also when bold
\* or italic is set on the same segment
C24_ModifiersHaveDedicatedCharPr ==
    docCall.op = "add_mixed_paragraph" =>
        \A k \in 1..Len(docCall.args) : \A key \in Modifiers :
            docCall.args[k][key] =>
                LastElement.para.runs[k].char_pr_id_ref = DedicatedCharPr(key)

\* the paragraphs a list call appended, in the order of its items
ListParagraph(i) == _elements[Len(_elements) - Len(docCall.args) + i].para

\* C28: for every combination of the code, bold and italic flags of a
\* segment, add_bullet_list and add_ordered_list give the segment's Run the
\* CharPr ID that add_mixed_paragraph gives a segment with the same flags
C28_ListRunsAsMixedRuns ==
    docCall.op \in {"add_bullet_list", "add_ordered_list"} =>
        \A i \in 1..Len(docCall.args) :
            ~docCall.args[i].str =>
                \A k \in 1..Len(docCall.args[i].segments) :
                    ListParagraph(i).runs[k].char_pr_id_ref
                        = MixedRuns(docCall.args[i].segments)[k]
                            .char_pr_id_ref

----------------------------------------------------------------------------
(* The images of a document and of the package built from it *)

\* the entries of the archive written with this name
EntriesNamed(name) ==
    {k \in 1..Len(docCall.archive) : docCall.archive[k].name = name}

\* the items of the manifest written in Contents/content.hpf
ManifestItems ==
    docCall.archive[CHOOSE k \in EntriesNamed(CONTENT_HPF_PATH) : TRUE]
        .content.data

\* the entries of the archive written under BinData/
BinDataEntries ==
    {k \in 1..Len(docCall.archive) :
        StartsWith(docCall.archive[k].name, BINDATA_DIR)}

\* C25: whatever builder calls were made, failed add_image calls included,
\* the images held carry the binary-item IDs image1, image2, ..., imageN
\* in insertion order, N being the number of images held; each has one
\* BinData entry and one manifest item in the package built
C25_ImageIdsSequential ==
    /\ \A i \in 1..Len(_images) :
            _images[i].binary_item_id = IMAGE_PREFIX \o str(i)
    /\ SectionWritten =>
        /\ Cardinality(BinDataEntries) = Len(_images)
        /\ Len(ManifestItems) = Len(_images)
        /\ \A i \in 1..Len(_images) :
            /\ Cardinality(EntriesNamed(BINDATA_DIR \o _images[i]._filename))
                    = 1
            /\ Cardinality({k \in 1..Len(ManifestItems) :
                    ManifestItems[k].id = _images[i].binary_item_id}) = 1

\* a document holding two images has been written
C25_Witness ==
    /\ SectionWritten
    /\ Len(_images) = 2
    /\ _images[2].binary_item_id = <<"i", "m", "a", "g", "e", "2">>
    /\ Cardinality(BinDataEntries) = 2

----------------------------------------------------------------------------
(* The Markdown converter (md2hwpx.py) over the nodes of md_parser.py *)

\* TextSegment(text, bold, italic, code)
TextSegment(text, bold, italic, code) ==
    [text |-> text, bold |-> bold, italic |-> italic, code |-> code]

\* a node of the parser: its class and the fields of that class
Node(type) ==
    [type |-> type, level |-> 0, text |-> <<>>, segments |-> <<>>,
     headers |-> <<>>, rows |-> <<>>, code |-> <<>>, items |-> <<>>]

Heading(level, text) ==
    [Node("Heading") EXCEPT !.level = level, !.text = text]

ParagraphNode(segments) ==
    [Node("ParagraphNode") EXCEPT !.segments = segments]

TableNode(headers, rows) ==
    [Node("TableNode") EXCEPT !.headers = headers, !.rows = rows]

CodeBlock(code) == [Node("CodeBlock") EXCEPT !.code = code]

\* items: (segments, level) tuples
BulletList(items) == [Node("BulletList") EXCEPT !.items = items]

OrderedList(items) == [Node("OrderedList") EXCEPT !.items = items]

HorizontalRuleNode == Node("HorizontalRule")

BlockQuote(segments) == [Node("BlockQuote") EXCEPT !.segments = segments]

\* _segments_to_format_list(segments)
_segments_to_format_list(segments) ==
    [i \in 1..Len(segments) |->
        Segment(segments[i].text, segments[i].bold, segments[i].italic,
                segments[i].code)]

\* _segments_to_plain(segments)
_segments_to_plain(segments) ==
    Concat([i \in 1..Len(segments) |-> segments[i].text])

\* _has_formatting(segments)
_has_formatting(segments) ==
    \E i \in 1..Len(segments) :
        segments[i].bold \/ segments[i].italic \/ segments[i].code

\* the items the converter makes of the items of a list node. It hands
\* each (segments, level) tuple to _has_formatting, which reads .bold of
\* the tuple's first element, a list: AttributeError at the first item
ConvertedItems(items) ==
    IF items = <<>> THEN [error |-> "None", items |-> <<>>]
    ELSE [error |-> "AttributeError", items |-> <<>>]

\* U+201C and U+201D
OPEN_QUOTE == "u201C"
CLOSE_QUOTE == "u201D"

\* the exception leaves convert_md_to_hwpx: the loop ends, the document
\* built so far is dropped with the frame
ConvertRaised(node, error) ==
    /\ docCall' = [NoDocCall EXCEPT !.op = "convert_md_to_hwpx",
                                    !.args = node, !.result = error]
    /\ ast' = <<>>
    /\ UNCHANGED <<_elements, _images, _image_counter, _seed>>

----------------------------------------------------------------------------
(* Specification SpecConvert: convert_md_to_hwpx, one node of the parsed
   sequence at a time *)

\* most nodes of the sequence converted
MaxAstNodes == 2

PLAIN_TEXT == TextSegment(<<"a">>, FALSE, FALSE, FALSE)
BOLD_TEXT == TextSegment(<<"b">>, TRUE, FALSE, FALSE)

\* list items as the parser makes them: (segments, level), level 0 to 2
NestedItems ==
    << [segments |-> <<PLAIN_TEXT>>, level |-> 0],
       [segments |-> <<PLAIN_TEXT, BOLD_TEXT>>, level |-> 1],
       [segments |-> <<PLAIN_TEXT>>, level |-> 2] >>

\* the nodes the parser makes
ParsedNodes ==
    { Heading(1, <<"a">>), Heading(6, <<"a">>),
      ParagraphNode(<<PLAIN_TEXT, PLAIN_TEXT>>),
      ParagraphNode(<<PLAIN_TEXT, BOLD_TEXT>>),
      TableNode(<< <<"a">> >>, << << <<"a">>, <<"a">> >> >>),
      CodeBlock(<<"a">>),
      BulletList(NestedItems),
      BulletList(<< [segments |-> <<BOLD_TEXT>>, level |-> 0] >>),
      OrderedList(NestedItems),
      OrderedList(<< [segments |-> <<PLAIN_TEXT>>, level |-> 0] >>),
      HorizontalRuleNode,
      BlockQuote(<<PLAIN_TEXT>>), BlockQuote(<<BOLD_TEXT>>) }

Asts == SeqsUpTo(ParsedNodes, MaxAstNodes)

\* the node the loop takes next
NextNode(type) == ast # <<>> /\ Head(ast).type = type

ConvertHeading ==
    /\ NextNode("Heading")
    /\ add_heading(Head(ast).text, Head(ast).level)
    /\ ast' = Tail(ast)
    /\ UNCHANGED <<regVars, escVars, pkgVars, idVars, formVars, sizeVars>>

ConvertParagraph ==
    /\ NextNode("ParagraphNode")
    /\ IF _has_formatting(Head(ast).segments)
       THEN add_mixed_paragraph(_segments_to_format_list(Head(ast).segments))
       ELSE add_paragraph(_segments_to_plain(Head(ast).segments),
                          FALSE, FALSE)
    /\ ast' = Tail(ast)
    /\ UNCHANGED <<regVars, escVars, pkgVars, idVars, formVars, sizeVars>>

ConvertTable ==
    /\ NextNode("TableNode")
    /\ add_table(Head(ast).headers, Head(ast).rows)
    /\ ast' = Tail(ast)
    /\ UNCHANGED <<regVars, escVars, pkgVars, idVars, formVars, sizeVars>>

ConvertCodeBlock ==
    /\ NextNode("CodeBlock")
    /\ add_code_block(Head(ast).code)
    /\ ast' = Tail(ast)
    /\ UNCHANGED <<regVars, escVars, pkgVars, idVars, formVars, sizeVars>>

ConvertBulletList ==
    /\ NextNode("BulletList")
    /\ \E made \in {ConvertedItems(Head(ast).items)} :
        IF made.error # "None"
        THEN ConvertRaised(Head(ast), made.error)
        ELSE add_bullet_list(made.items) /\ ast' = Tail(ast)
    /\ UNCHANGED <<regVars, escVars, pkgVars, idVars, formVars, sizeVars>>

ConvertOrderedList ==
    /\ NextNode("OrderedList")
    /\ \E made \in {ConvertedItems(Head(ast).items)} :
        IF made.error # "None"
        THEN ConvertRaised(Head(ast), made.error)
        ELSE add_ordered_list(made.items) /\ ast' = Tail(ast)
    /\ UNCHANGED <<regVars, escVars, pkgVars, idVars, formVars, sizeVars>>

ConvertHorizontalRule ==
    /\ NextNode("HorizontalRule")
    /\ add_horizontal_rule
    /\ ast' = Tail(ast)
    /\ UNCHANGED <<regVars, escVars, pkgVars, idVars, formVars, sizeVars>>

ConvertBlockQuote ==
    /\ NextNode("BlockQuote")
    /\ IF _has_formatting(Head(ast).segments)
       THEN add_mixed_paragraph(
                << Segment(<<OPEN_QUOTE, " ">>, FALSE, TRUE, FALSE) >>
                \o _segments_to_format_list(Head(ast).segments)
                \o << Segment(<<" ", CLOSE_QUOTE>>, FALSE, TRUE, FALSE) >>)
       ELSE add_paragraph(<<OPEN_QUOTE>>
                            \o _segments_to_plain(Head(ast).segments)
                            \o <<CLOSE_QUOTE>>,
                          FALSE, TRUE)
    /\ ast' = Tail(ast)
    /\ UNCHANGED <<regVars, escVars, pkgVars, idVars, formVars, sizeVars>>

InitConvert ==
    /\ _elements = <<>>
    /\ _images = <<>>
    /\ _image_counter = 0
    /\ _seed = NoSeed
    /\ docCall = NoDocCall
    /\ NewRegistry
    /\ ast \in Asts
    /\ SizeIdle
    /\ FormIdle
    /\ EscIdle
    /\ PkgIdle
    /\ IdIdle

NextConvert ==
    \/ ConvertHeading
    \/ ConvertParagraph
    \/ ConvertTable
    \/ ConvertCodeBlock
    \/ ConvertBulletList
    \/ ConvertOrderedList
    \/ ConvertHorizontalRule
    \/ ConvertBlockQuote

SpecConvert == InitConvert /\ [][NextConvert]_vars

\* the ParaPr registered for a nesting level of a list node
LevelParaPr(type, level) ==
    IF type = "BulletList" THEN _BULLET_LEVEL_MAP[level + 1]
    ELSE _ORDERED_LEVEL_MAP[level + 1]

\* C26: converting a node sequence that holds a BulletList or OrderedList
\* node succeeds: the step that takes the list node appends one paragraph
\* per item, in order, with the ParaPr ID registered for the item's nesting
\* level (0, 1 or 2), and goes on to the next node
C26_ListNodesConverted ==
    [][ast # <<>> /\ Head(ast).type \in {"BulletList", "OrderedList"} =>
        /\ docCall'.result = "list"
        /\ ast' = Tail(ast)
        /\ Len(_elements') = Len(_elements) + Len(Head(ast).items)
        /\ \A i \in 1..Len(Head(ast).items) :
            /\ _elements'[Len(_elements) + i].kind = "paragraph"
            /\ _elements'[Len(_elements) + i].para.para_pr_id_ref
                = LevelParaPr(Head(ast).type, Head(ast).items[i].level)]_vars

----------------------------------------------------------------------------
(* The compression of the archive HwpxPackage writes *)

\* C27: in every archive written by HwpxPackage.save or to_bytes, whatever
\* files were added and in whatever order, every entry other than mimetype
\* is written with DEFLATED compression
C27_OthersDeflated ==
    last.op \in {"save", "to_bytes"} =>
        /\ Len(last.archive) = Len(files)
        /\ \A i \in 1..Len(last.archive) :
              last.archive[i].name # MIMETYPE_PATH =>
                  last.archive[i].compress_type = "ZIP_DEFLATED"

\* an archive of two files and mimetype, written by save from a package
\* to which mimetype was not added first
C27_Witness ==
    /\ last.op = "save"
    /\ Len(last.archive) = 3
    /\ files[1].path # MIMETYPE_PATH
    /\ last.archive[1].name = MIMETYPE_PATH
    /\ last.archive[3].compress_type = "ZIP_DEFLATED"


\* ---------------------------------------------------------------------
\* save(path) when the archive cannot be written, and the generator the
\* thread is left with
\* ---------------------------------------------------------------------

\* paths zipfile.ZipFile(path, 'w') cannot open: a directory that does not
\* exist, a directory without write permission
UnwritablePaths == {"/nonexistent_dir/x.hwpx", "/proc/x.hwpx"}

\* the exception open() raises for each of them
OpenError(path) ==
    IF path = "/nonexistent_dir/x.hwpx" THEN "FileNotFoundError"
    ELSE "PermissionError"

\* save(path) with such a path: set_id_seed and _build_package run as in
\* every save, pkg.save(path) raises out of the ZipFile constructor, and the
\* reset_id_seed() that follows it in save is never reached
SaveUnwritable ==
    LET seeded == _seed # NoSeed
        r0 == IF seeded THEN set_seed(rng, MainThread, _seed) ELSE rng
    IN  /\ r0[ThreadLocalSlot(MainThread)].pos + IdsNeeded(_elements)
             <= MaxDocIds
        /\ \E path \in UnwritablePaths,
              entropy \in Entropy(r0[ThreadLocalSlot(MainThread)] = NoRng) :
            \E sec \in {_build_section_xml(_elements, r0, MainThread,
                                          entropy)} :
            \E b \in {_build_package(sec, _images)} :
                /\ rng' = b.rng
                /\ _elements' = b.elements
                /\ docCall' =
                    [op |-> "save",
                     args |-> <<>>,
                     result |-> IF b.error # "None" THEN b.error
                                ELSE OpenError(path),
                     archive |-> <<>>,
                     section |-> b.section]
        /\ UNCHANGED <<_images, _image_counter, _seed>>
        /\ UNCHANGED <<idCall, seededBy, drawn, epochs, escVars, pkgVars,
                       formVars, regVars, mdVars,
                   sizeVars>>

NextSeeded ==
    \/ NewDocument
    \/ AddHeading
    \/ AddParagraph
    \/ AddTable
    \/ AddImage
    \/ Save
    \/ ToBytes
    \/ SaveUnwritable

SpecSeeded == InitDoc /\ [][NextSeeded]_vars

\* the generator the calling thread holds was made by set_id_seed
GeneratorSeeded == rng[ThreadLocalSlot(MainThread)].mode = "seeded"

\* C29: once save() or to_bytes() of a document created with a seed has
\* finished, by returning or by raising, the calling thread's ID generator
\* is no longer the seeded generator of that document
C29_GeneratorResetAfterSerialize ==
    Serialized /\ _seed # NoSeed => ~GeneratorSeeded

\* ---------------------------------------------------------------------
\* _detect_image_size: the marker-segment scan of its JPEG branch
\* ---------------------------------------------------------------------

\* the leading bytes of the input that are drawn freely
MaxLead == 4

\* b'\xff\xd8'
JPEG_SIGNATURE == <<255, 216>>

\* 0xFF, the byte every marker starts with
MARKER_PREFIX == 255

\* (0xC0, 0xC1, 0xC2)
SOF_MARKERS == {192, 193, 194}

\* (200, 200)
FALLBACK_SIZE == [w |-> 200, h |-> 200]

\* data[k] of a bytes object
ByteAt(d, k) == d[k + 1]

\* data[a:b] of a bytes object: the slice ends where the data ends
Slice(d, a, b) ==
    IF a >= Len(d) THEN <<>> ELSE SubSeq(d, a + 1, IF b < Len(d) THEN b ELSE Len(d))

\* struct.unpack('>H', b)[0] for two bytes
UnpackH(b) == b[1] * 256 + b[2]

\* a scan that adds the length alone, without the two bytes of the marker
index_after_length(index, length) == index + length

\* i += 2 + length
index_after_segment(index, length) == index + 2 + length

\* the byte values the inputs are made of: zero, a small length, a
\* start-of-frame marker, the marker prefix
ByteValues == {0, 2, 192, 255}

\* a start-of-frame segment of height 2 and width 192
SOF0_SEGMENT == <<255, 192, 0, 17, 8, 0, 2, 0, 192>>

\* the beginnings of a byte string, the empty one and the whole included
Truncations(d) == {SubSeq(d, 1, n) : n \in 0..Len(d)}

\* the inputs: the signature, then up to MaxLead bytes of any value, then
\* a start-of-frame segment cut off anywhere
JpegInputs ==
    {JPEG_SIGNATURE \o lead \o frame :
        lead \in SeqsUpTo(ByteValues, MaxLead),
        frame \in Truncations(SOF0_SEGMENT)}

\* the call has entered the loop and has not left it
Scanning == scan.state = "scanning"

\* the loop's test: while i < len(data) - 1
InLoop == Scanning /\ scan.i < Len(scan.data) - 1

\* the byte after the marker prefix
Marker == ByteAt(scan.data, scan.i + 1)

\* how the call ends
Ended(state, size) ==
    scan' = [scan EXCEPT !.state = state, !.w = size.w, !.h = size.h]

\* the loop's test fails: the GIF and BMP signatures do not match data
\* that starts with the JPEG signature, and the fallback size is returned
ScanExhausted ==
    /\ Scanning /\ ~InLoop
    /\ Ended("fallback", FALLBACK_SIZE)
    /\ UNCHANGED <<escVars, pkgVars, idVars, docCall, _elements, _images,
                   _image_counter, _seed, regVars, mdVars, formVars>>

\* if data[i] != 0xFF: break, and from there to the fallback size
ScanBreak ==
    /\ InLoop
    /\ ByteAt(scan.data, scan.i) # MARKER_PREFIX
    /\ Ended("fallback", FALLBACK_SIZE)
    /\ UNCHANGED <<escVars, pkgVars, idVars, docCall, _elements, _images,
                   _image_counter, _seed, regVars, mdVars, formVars>>

\* a start-of-frame marker with its four bytes of height and width:
\* h, w = struct.unpack('>HH', data[i + 5:i + 9]); return (w, h)
ScanDimensions ==
    /\ InLoop
    /\ ByteAt(scan.data, scan.i) = MARKER_PREFIX
    /\ Marker \in SOF_MARKERS
    /\ \E b \in {Slice(scan.data, scan.i + 5, scan.i + 9)} :
        /\ Len(b) = 4
        /\ Ended("dimensions", [h |-> UnpackH(SubSeq(b, 1, 2)),
                                w |-> UnpackH(SubSeq(b, 3, 4))])
    /\ UNCHANGED <<escVars, pkgVars, idVars, docCall, _elements, _images,
                   _image_counter, _seed, regVars, mdVars, formVars>>

\* struct.unpack raises struct.error when the data ends inside the bytes
\* it is to read: the dimensions of a start-of-frame segment, or the
\* length of any other segment
ScanTruncated ==
    /\ InLoop
    /\ ByteAt(scan.data, scan.i) = MARKER_PREFIX
    /\ \/ /\ Marker \in SOF_MARKERS
          /\ Len(Slice(scan.data, scan.i + 5, scan.i + 9)) # 4
       \/ /\ Marker \notin SOF_MARKERS
          /\ Len(Slice(scan.data, scan.i + 2, scan.i + 4)) # 2
    /\ Ended("struct.error", [w |-> 0, h |-> 0])
    /\ UNCHANGED <<escVars, pkgVars, idVars, docCall, _elements, _images,
                   _image_counter, _seed, regVars, mdVars, formVars>>

\* any other marker: length = struct.unpack('>H', data[i + 2:i + 4])[0];
\* i += 2 + length
ScanSkip ==
    /\ InLoop
    /\ ByteAt(scan.data, scan.i) = MARKER_PREFIX
    /\ Marker \notin SOF_MARKERS
    /\ \E b \in {Slice(scan.data, scan.i + 2, scan.i + 4)} :
        /\ Len(b) = 2
        /\ scan' = [scan EXCEPT !.i = index_after_segment(scan.i, UnpackH(b))]
    /\ UNCHANGED <<escVars, pkgVars, idVars, docCall, _elements, _images,
                   _image_counter, _seed, regVars, mdVars, formVars>>

\* _detect_image_size(data) has found the JPEG signature: i = 2
InitScan ==
    /\ \E d \in JpegInputs :
        scan = [data |-> d, i |-> 2, state |-> "scanning", w |-> 0, h |-> 0]
    /\ _elements = <<>>
    /\ _images = <<>>
    /\ _image_counter = 0
    /\ _seed = NoSeed
    /\ docCall = NoDocCall
    /\ NewRegistry
    /\ ast = <<>>
    /\ FormIdle
    /\ EscIdle
    /\ PkgIdle
    /\ IdIdle

NextScan ==
    \/ ScanExhausted
    \/ ScanBreak
    \/ ScanDimensions
    \/ ScanTruncated
    \/ ScanSkip

SpecScan == InitScan /\ [][NextScan]_vars

\* the call runs in a thread of the interpreter, which goes on executing
\* the loop as long as an iteration is left to take
SpecScanFair == SpecScan /\ WF_vars(NextScan)

\* C30: for every byte string that starts with the JPEG signature the
\* marker scan terminates: an iteration that stays in the loop leaves the
\* index strictly larger, and the call ends by returning dimensions, by
\* leaving the loop for the fallback size, or by raising on truncated data
C30_ScanTerminates ==
    /\ [][Scanning /\ scan'.state = "scanning" => scan'.i > scan.i]_vars
    /\ <>(scan.state \in {"dimensions", "fallback", "struct.error"})

\* a scan that skipped a segment and returned the dimensions of the
\* start-of-frame segment behind it
C30_Witness ==
    /\ scan.state = "dimensions"
    /\ scan.i > 2
    /\ scan.w = 192 /\ scan.h = 2
=============================================================================
